---- MODULE Spec2Model ----
(***************************************************************************)
(* Turn state machine of the campaign (game/game.py, class Game).          *)
(*                                                                         *)
(* Strengths are held in hundredths (1.0 = 100), budgets in whole units.   *)
(* Every handler is one action; inside an action the handler's statements  *)
(* are composed in source order as functions on a record g of the fields   *)
(* the handler writes.  g.log lists, in call order, what the handler did   *)
(* during the last call (collaborator calls and field writes), with the    *)
(* values it saw.  The statistics update and the aircraft inventory reset  *)
(* of initialize_turn write no field modelled here and are left out; the   *)
(* "End of turn" entry of Game.informations is the log's "pass_turn".      *)
(***************************************************************************)
EXTENDS Integers, Sequences, FiniteSets, TLC

VARIABLES
    controlpoints,   \* theater.controlpoints: list of control point ids
    captured,        \* ControlPoint.captured, per id (TRUE = player-owned)
    cptype,          \* ControlPoint.cptype, per id
    connected,       \* TRUE when the two control points are adjacent
    strength,        \* ControlPoint.base.strength in hundredths, per id
    turn,            \* Game.turn
    date,            \* Game.date (campaign start date, as a day number)
    budget,          \* Game.budget (player)
    enemy_budget,    \* Game.enemy_budget
    conditions,      \* Game.conditions: what generate_conditions was given
    events,          \* Game.events: front-line events, pairs <<player cp, enemy cp>>
    blue_ato,        \* Game.blue_ato.packages
    red_ato,         \* Game.red_ato.packages
    ground_planners, \* keys of Game.ground_planners
    culling_points,  \* Game.__culling_points: list of map points
    blue_threat_zone, \* Game.blue_threat_zone: {} when the attribute is absent
    red_threat_zone,  \* Game.red_threat_zone
    blue_navmesh,    \* Game.blue_navmesh
    red_navmesh,     \* Game.red_navmesh
    perf_do_not_cull_carrier, \* Game.settings.perf_do_not_cull_carrier
    log,             \* what the last handler call did, in order
    advances,        \* number of pass_turn calls made so far
    is_global,       \* ControlPoint.is_global, per id
    do_not_generate_player_navy, \* Game.settings.do_not_generate_player_navy
    do_not_generate_enemy_navy,  \* Game.settings.do_not_generate_enemy_navy
    pending,         \* the control points GroundObjectGenerator.generate has yet to visit
    faction,         \* what db.FACTIONS gives the generator, per side
    ground_objects,  \* ControlPoint.ground_objects: list of installations, per id
    random,          \* the random module: the stream it yields and how far it was read
    calls,           \* what the last generator call did, in order
    search,          \* one find_location call: its arguments and its outcome
    current_group_id, \* Game.current_group_id
    name,            \* ControlPoint.name, per id
    visited,         \* the control points GroundObjectGenerator.generate has visited
    game_generator   \* the GameGenerator: its options, what it reads of the
                     \* control points, and how far it has come

vars == <<controlpoints, captured, cptype, connected, strength, turn, date,
          budget, enemy_budget, conditions, events, blue_ato, red_ato,
          ground_planners, culling_points, blue_threat_zone, red_threat_zone,
          blue_navmesh, red_navmesh, perf_do_not_cull_carrier, log, advances,
          is_global, do_not_generate_player_navy, do_not_generate_enemy_navy,
          pending, faction, ground_objects, random, calls, search,
          current_group_id, name, visited, game_generator>>

\* What the campaign generator works on, and what a turn of the game does not
\* touch.
genvars == <<is_global, do_not_generate_player_navy,
             do_not_generate_enemy_navy, pending, faction, ground_objects,
             random, calls, search, current_group_id, name, visited,
             game_generator>>

(***************************************************************************)
(* Bounds of the model.                                                    *)
(***************************************************************************)
NumCP == 2        \* control point ids are 1..NumCP
MaxTurn == 4      \* pass_turn is not taken beyond this turn
MaxBudget == 2    \* an income that would take a budget beyond this is not drawn

(***************************************************************************)
(* Program constants.                                                      *)
(***************************************************************************)
PLAYER_BASE_STRENGTH_RECOVERY == 20
ENEMY_BASE_STRENGTH_RECOVERY == 5
FULL_STRENGTH == 100
FIRST_TURN_GROUND_PORTION == 30
GROUND_PORTION == 50

CPIds == 1..NumCP
CPTypes == {"airbase", "carrier", "lha"}
Sides == {"blue", "red"}
TurnState == {"WIN", "LOSS", "CONTINUE"}
TimeOfDay == <<"Dawn", "Day", "Dusk", "Night">>

Min(a, b) == IF a < b THEN a ELSE b
Max(a, b) == IF a > b THEN a ELSE b

Range(s) == {s[i] : i \in 1..Len(s)}

\* One entry of the log.
Ev(op, cp, side, x, y) == [op |-> op, cp |-> cp, side |-> side, x |-> x, y |-> y]
Emit(g, e) == [g EXCEPT !.log = Append(@, e)]

\* Which collaborator call fails during a handler call, if any: the first call
\* of g.fail.op for g.fail.side.  A failure is an exception: it ends the
\* handler where it is raised, and g.raised tells the statements after it not
\* to run.
NoFail == [op |-> "none", side |-> ""]
Fails(g, op, side) == g.fail = [op |-> op, side |-> side]
Raise(g, op) == [Emit(g, Ev("raise", 0, op, 0, 0)) EXCEPT !.raised = TRUE]
Then(g, next) == IF g.raised THEN g ELSE next

\* The fields of Game (and of its control points' bases) a turn writes.
Game ==
    [turn |-> turn, budget |-> budget, enemy_budget |-> enemy_budget,
     strength |-> strength, conditions |-> conditions, events |-> events,
     blue_ato |-> blue_ato, red_ato |-> red_ato,
     ground_planners |-> ground_planners, culling_points |-> culling_points,
     blue_threat_zone |-> blue_threat_zone, red_threat_zone |-> red_threat_zone,
     blue_navmesh |-> blue_navmesh, red_navmesh |-> red_navmesh, log |-> <<>>,
     raised |-> FALSE, fail |-> NoFail]

is_carrier(cp) == cptype[cp] = "carrier"
is_lha(cp) == cptype[cp] = "lha"

player_points == SelectSeq(controlpoints, LAMBDA c : captured[c])
enemy_points == SelectSeq(controlpoints, LAMBDA c : ~captured[c])

\* theater.conflicts(True): one front line per adjacent pair of opposing
\* control points, player side first.  The theater's one adjacency, when it
\* has one, joins control points 1 and 2.
conflicts ==
    {<<a, b>> \in Range(controlpoints) \X Range(controlpoints) :
        {a, b} = {1, 2} /\ connected /\ captured[a] /\ ~captured[b]}

has_frontline(cp) ==
    \E f \in conflicts : f[1] = cp \/ f[2] = cp

\* Base.affect_strength: add, then clamp to [0, 1].
affect_strength(s, amount) ==
    LET n == s + amount
    IN  IF n > FULL_STRENGTH THEN FULL_STRENGTH ELSE IF n <= 0 THEN 0 ELSE n

\* ControlPoint.process_turn: the per-point upkeep hook.
process_turn(g, cp) ==
    LET g1 == Emit(g, Ev("process_turn", cp, "", g.turn, 0))
    IN  IF Fails(g, "process_turn", "") THEN Raise(g, "process_turn")
        ELSE IF ~captured[cp]
        THEN [g1 EXCEPT !.strength[cp] =
                  affect_strength(@, ENEMY_BASE_STRENGTH_RECOVERY)]
        ELSE g1

RECURSIVE process_turns(_, _)
process_turns(g, cps) ==
    IF cps = <<>> \/ g.raised THEN g
    ELSE process_turns(process_turn(g, Head(cps)), Tail(cps))

\* Mutant: the enemy's income is credited to both budgets.
process_enemy_income_shared(g, in) ==
    LET b == g.enemy_budget + in.enemy_income
    IN  Emit([g EXCEPT !.enemy_budget = b, !.budget = @ + in.enemy_income],
             Ev("income", 0, "red", in.enemy_income, b))

process_enemy_income(g, in) ==
    LET b == g.enemy_budget + in.enemy_income
    IN  IF Fails(g, "income", "red") THEN Raise(g, "income") ELSE
        Emit([g EXCEPT !.enemy_budget = b],
             Ev("income", 0, "red", in.enemy_income, b))

\* Mutant: the player's income is taken from the budget.
process_player_income_debit(g, in) ==
    LET b == g.budget - in.player_income
    IN  Emit([g EXCEPT !.budget = b],
             Ev("income", 0, "blue", in.player_income, b))

process_player_income(g, in) ==
    LET b == g.budget + in.player_income
    IN  IF Fails(g, "income", "blue") THEN Raise(g, "income") ELSE
        Emit([g EXCEPT !.budget = b],
             Ev("income", 0, "blue", in.player_income, b))

strengthen(g, cp) ==
    Emit([g EXCEPT !.strength[cp] =
              affect_strength(@, PLAYER_BASE_STRENGTH_RECOVERY)],
         Ev("affect_strength", cp, "", PLAYER_BASE_STRENGTH_RECOVERY, g.strength[cp]))

weaken(g, cp) ==
    Emit([g EXCEPT !.strength[cp] =
              affect_strength(@, 0 - PLAYER_BASE_STRENGTH_RECOVERY)],
         Ev("affect_strength", cp, "", 0 - PLAYER_BASE_STRENGTH_RECOVERY, g.strength[cp]))

RECURSIVE recover_all(_, _)
recover_all(g, cps) ==
    IF cps = <<>> THEN g
    ELSE recover_all(strengthen(g, Head(cps)), Tail(cps))

RECURSIVE weaken_all(_, _)
weaken_all(g, cps) ==
    IF cps = <<>> THEN g
    ELSE LET cp == Head(cps)
         IN  weaken_all(IF ~is_carrier(cp) /\ ~is_lha(cp) THEN weaken(g, cp) ELSE g,
                        Tail(cps))

\* Mutant: the recovery branch is taken from the first turn on.
strength_step_first_turn(g, no_action) ==
    IF ~no_action /\ g.turn > 0
    THEN recover_all(g, player_points)
    ELSE weaken_all(g, player_points)

\* Mutant: the strength step runs over every control point of the theater.
strength_step_all_points(g, no_action) ==
    IF ~no_action /\ g.turn > 1
    THEN recover_all(g, controlpoints)
    ELSE weaken_all(g, controlpoints)

\* pass_turn, the strength step.
strength_step(g, no_action) ==
    IF ~no_action /\ g.turn > 1
    THEN recover_all(g, player_points)
    ELSE weaken_all(g, player_points)

\* Mutant: the cycle is one value short.
current_turn_time_of_day_mod3(t) == TimeOfDay[(t % 3) + 1]

current_turn_time_of_day(t) == TimeOfDay[(t % 4) + 1]

current_day(t) == date + (t \div 4)

generate_conditions(t) ==
    [date |-> date, time_of_day |-> current_turn_time_of_day(t)]

regenerate_conditions(g) ==
    LET c == generate_conditions(g.turn)
    IN  Emit([g EXCEPT !.conditions = c],
             Ev("generate_conditions", 0, c.time_of_day, c.date, g.turn))

\* Mutant: the two membership tests in the other order.
check_win_loss_win_first ==
    LET captured_states == {captured[i] : i \in Range(controlpoints)}
    IN  IF FALSE \notin captured_states THEN "WIN"
        ELSE IF TRUE \notin captured_states THEN "LOSS"
        ELSE "CONTINUE"

check_win_loss ==
    LET captured_states == {captured[i] : i \in Range(controlpoints)}
    IN  IF TRUE \notin captured_states THEN "LOSS"
        ELSE IF FALSE \notin captured_states THEN "WIN"
        ELSE "CONTINUE"

process_win_loss(g, turn_state) ==
    IF turn_state = "WIN" THEN Emit(g, Ev("message", 0, "WIN", g.turn, 0))
    ELSE IF turn_state = "LOSS" THEN Emit(g, Ev("message", 0, "LOSS", g.turn, 0))
    ELSE g

\* ProcurementAi(...).spend_budget: returns what is left of the budget.
spend_budget(b, spend) == Max(0, b - spend)

\* One call of ProcurementAi(...).spend_budget and the assignment of what it
\* returns.
procure(g, side, ground_portion, spend) ==
    LET b == IF side = "blue" THEN g.budget ELSE g.enemy_budget
        left == spend_budget(b, spend)
        g1 == Emit(g, Ev("spend_budget", 0, side, ground_portion, b))
        g2 == Emit(g1, Ev("spend_budget_return", 0, side, left, 0))
    IN  IF Fails(g, "spend_budget", side) THEN Raise(g, "spend_budget")
        ELSE IF side = "blue" THEN [g2 EXCEPT !.budget = left]
        ELSE [g2 EXCEPT !.enemy_budget = left]

\* Mutant: the share of the first turn is still used in the turn after it.
plan_procurement_late_share(g, in) ==
    LET ground_portion == IF g.turn <= 1 THEN FIRST_TURN_GROUND_PORTION
                          ELSE GROUND_PORTION
        g1 == procure(g, "blue", ground_portion, in.player_spend)
    IN  Then(g1, procure(g1, "red", ground_portion, in.enemy_spend))

plan_procurement(g, in) ==
    LET ground_portion == IF g.turn = 0 THEN FIRST_TURN_GROUND_PORTION
                          ELSE GROUND_PORTION
        g1 == procure(g, "blue", ground_portion, in.player_spend)
    IN  Then(g1, procure(g1, "red", ground_portion, in.enemy_spend))

\* CoalitionMissionPlanner(...).plan_missions: adds the planned packages to
\* the coalition's ATO.
plan_missions(g, side, planned) ==
    IF Fails(g, "plan_missions", side) THEN Raise(g, "plan_missions")
    ELSE IF side = "blue"
    THEN Emit([g EXCEPT !.blue_ato = @ \cup planned],
              Ev("plan_missions", 0, "blue", Cardinality(g.blue_ato), 0))
    ELSE Emit([g EXCEPT !.red_ato = @ \cup planned],
              Ev("plan_missions", 0, "red", Cardinality(g.red_ato), 0))

plan_groundwar(g, cp) ==
    IF Fails(g, "plan_groundwar", "") THEN Raise(g, "plan_groundwar") ELSE
    Emit([g EXCEPT !.ground_planners = @ \cup {cp}],
         Ev("plan_groundwar", cp, "", 0, 0))

\* Mutant: a ground planner is run for every control point.
RECURSIVE plan_groundwars_everywhere(_, _)
plan_groundwars_everywhere(g, cps) ==
    IF cps = <<>> \/ g.raised THEN g
    ELSE plan_groundwars_everywhere(plan_groundwar(g, Head(cps)), Tail(cps))

RECURSIVE plan_groundwars(_, _)
plan_groundwars(g, cps) ==
    IF cps = <<>> \/ g.raised THEN g
    ELSE LET cp == Head(cps)
         IN  plan_groundwars(IF has_frontline(cp) THEN plan_groundwar(g, cp) ELSE g,
                             Tail(cps))

(***************************************************************************)
(* Map points.  A point is named by what it is the position of: a control  *)
(* point ("cp"), the front line between two control points ("front"), the  *)
(* middle between two control points ("mid"), the objective a package      *)
(* targets at a control point ("tgo"), or the map origin Point(0, 0).      *)
(***************************************************************************)
Point(kind, a, b) == [kind |-> kind, a |-> a, b |-> b]
position(cp) == Point("cp", cp, 0)
frontline_position(a, b) == Point("front", a, b)
midpoint(a, b) == Point("mid", a, b)
target_position(package) == Point("tgo", package.target, 0)
ORIGIN == Point("origin", 0, 0)

\* Where the control points lie on the map (one coordinate), and the distance
\* between two of them.
MAXSIZE == 1000
coordinate(cp) == ((2 * cp) % 5) * 10
distance_to_point(a, b) ==
    IF coordinate(a) > coordinate(b) THEN coordinate(a) - coordinate(b)
    ELSE coordinate(b) - coordinate(a)

\* The elements of a set of front lines or packages, as a list.
RECURSIVE ListOf(_)
ListOf(S) ==
    IF S = {} THEN <<>>
    ELSE LET x == CHOOSE e \in S : TRUE IN <<x>> \o ListOf(S \ {x})

RECURSIVE Concat(_)
Concat(ss) == IF ss = <<>> THEN <<>> ELSE Head(ss) \o Concat(Tail(ss))

Map(f(_), s) == [i \in 1..Len(s) |-> f(s[i])]

\* compute_conflicts_position, the loop over the front lines.
frontline_points ==
    Concat(Map(LAMBDA f : <<frontline_position(f[1], f[2]),
                            position(f[1]), position(f[2])>>,
               ListOf(conflicts)))

\* compute_conflicts_position, the carriers and LHAs that are never culled.
carrier_points ==
    IF perf_do_not_cull_carrier
    THEN Map(position,
             SelectSeq(controlpoints, LAMBDA cp : is_carrier(cp) \/ is_lha(cp)))
    ELSE <<>>

\* The inner loop of the search for a pair of opposing control points: it
\* ends at the first enemy point nearer than min_distance.
RECURSIVE nearest_enemy(_, _, _)
nearest_enemy(cp, cps2, min_distance) ==
    IF cps2 = <<>> THEN <<>>
    ELSE IF distance_to_point(cp, Head(cps2)) < min_distance
         THEN <<cp, Head(cps2)>>
         ELSE nearest_enemy(cp, Tail(cps2), min_distance)

\* The outer loop: it ends at the first player point for which the inner loop
\* found an enemy point.
RECURSIVE opposing_pair(_)
opposing_pair(cps) ==
    IF cps = <<>> THEN <<>>
    ELSE LET found == nearest_enemy(Head(cps), enemy_points, MAXSIZE)
         IN  IF found # <<>> THEN found ELSE opposing_pair(Tail(cps))

\* Mutant: the middle between the two control points is left out.
fallback_points_no_midpoint(points) ==
    IF Len(points) = 0
    THEN LET pair == opposing_pair(player_points)
         IN  IF pair # <<>>
             THEN <<position(pair[1]), position(pair[2])>>
             ELSE <<>>
    ELSE <<>>

\* compute_conflicts_position, when no point was found so far: the positions
\* of a pair of opposing control points and the middle between them.
fallback_points(points) ==
    IF Len(points) = 0
    THEN LET pair == opposing_pair(player_points)
         IN  IF pair # <<>>
             THEN <<position(pair[1]), position(pair[2]),
                    midpoint(pair[1], pair[2])>>
             ELSE <<>>
    ELSE <<>>

\* Mutant: a BARCAP package contributes like any other package.
package_points_with_barcap(packages) ==
    Map(target_position, packages)

\* compute_conflicts_position, the loop over the packages of both ATOs.
package_points(packages) ==
    Map(target_position, SelectSeq(packages, LAMBDA p : p.task # "BARCAP"))

\* Mutant: the new points are appended to the list of the turn before.
compute_conflicts_position_append(g) ==
    LET points1 == g.culling_points \o frontline_points \o carrier_points
        points2 == points1 \o fallback_points(points1)
        points3 == points2 \o
                   package_points(ListOf(g.blue_ato) \o ListOf(g.red_ato))
        points == IF Len(points3) = 0 THEN <<ORIGIN>> ELSE points3
    IN  Emit([g EXCEPT !.culling_points = points],
             Ev("compute_conflicts_position", 0, "", Len(points), 0))

compute_conflicts_position(g) ==
    LET points1 == frontline_points \o carrier_points
        points2 == points1 \o fallback_points(points1)
        points3 == points2 \o
                   package_points(ListOf(g.blue_ato) \o ListOf(g.red_ato))
        points == IF Len(points3) = 0 THEN <<ORIGIN>> ELSE points3
    IN  Emit([g EXCEPT !.culling_points = points],
             Ev("compute_conflicts_position", 0, "", Len(points), 0))

\* ThreatZones.for_faction: the zone threatened by the faction's control
\* points; NavMesh.from_threat_zones: the mesh around a threat zone.
for_faction(player) ==
    [player |-> player, points |-> {c \in Range(controlpoints) : captured[c] = player}]
from_threat_zones(zone) == [threat_zone |-> zone]

compute_threat_zones(g) ==
    LET blue == for_faction(TRUE)
        red == for_faction(FALSE)
    IN  Emit([g EXCEPT !.blue_threat_zone = {blue},
                       !.red_threat_zone = {red},
                       !.blue_navmesh = {from_threat_zones(red)},
                       !.red_navmesh = {from_threat_zones(blue)}],
             Ev("compute_threat_zones", 0, "", 0, 0))

\* on_load: what is recomputed when a game is created or loaded.
on_load(g) ==
    compute_threat_zones(compute_conflicts_position(g))

clear_atos(g) ==
    LET g1 == Emit([g EXCEPT !.blue_ato = {}],
                   Ev("ato_clear", 0, "blue", Cardinality(g.blue_ato), 0))
    IN  Emit([g1 EXCEPT !.red_ato = {}],
             Ev("ato_clear", 0, "red", Cardinality(g1.red_ato), 0))

\* Mutant: the ATOs are cleared after the missions are planned, and
\* procurement runs before the ground planners.
plan_turn_late_clear(g, in) ==
    LET g1 == compute_conflicts_position(g)
        g2 == compute_threat_zones(g1)
        g3 == [g2 EXCEPT !.ground_planners = {}]
        g4 == plan_missions(g3, "blue", in.blue_plan)
        g5 == plan_missions(g4, "red", in.red_plan)
        g6 == clear_atos(g5)
        g7 == plan_procurement(g6, in)
    IN  plan_groundwars(g7, controlpoints)

\* initialize_turn, from "Plan flights & combat for next turn" on.
plan_turn(g, in) ==
    LET g1 == compute_conflicts_position(g)
        g2 == compute_threat_zones(g1)
        g3 == [g2 EXCEPT !.ground_planners = {}]
        g4 == clear_atos(g3)
        g5 == plan_missions(g4, "blue", in.blue_plan)
        g6 == Then(g5, plan_missions(g5, "red", in.red_plan))
        g7 == Then(g6, plan_groundwars(g6, controlpoints))
    IN  Then(g7, plan_procurement(g7, in))

\* Mutant: the win/loss message is emitted but planning goes on.
initialize_turn_no_return(g, in) ==
    LET g1 == Emit([g EXCEPT !.events = conflicts],
                   Ev("initialize_turn", 0, "", g.turn, 0))
        turn_state == check_win_loss
        g2 == Emit(g1, Ev("check_win_loss", 0, turn_state, 0, 0))
    IN  plan_turn(process_win_loss(g2, turn_state), in)

initialize_turn(g, in) ==
    LET g1 == Emit([g EXCEPT !.events = conflicts],
                   Ev("initialize_turn", 0, "", g.turn, 0))
        turn_state == check_win_loss
        g2 == Emit(g1, Ev("check_win_loss", 0, turn_state, 0, 0))
    IN  IF turn_state \in {"LOSS", "WIN"}
        THEN process_win_loss(g2, turn_state)
        ELSE plan_turn(g2, in)

(***************************************************************************)
(* Persistence.  The persisted state is the object's attribute dictionary  *)
(* (here: the fields of the record, without the bookkeeping of the log)    *)
(* as __getstate__ returns it; an absent threat zone or nav-mesh attribute *)
(* of the live object reads {}.                                            *)
(***************************************************************************)
Bookkeeping == {"log", "raised", "fail"}
Deleted == {"blue_threat_zone", "red_threat_zone", "blue_navmesh", "red_navmesh"}

\* Mutant: no copy is taken, the attributes are deleted from the object itself.
getstate_no_copy(g) ==
    [state |-> [f \in (DOMAIN g \ Bookkeeping) \ Deleted |-> g[f]],
     live |-> [g EXCEPT !.blue_threat_zone = {}, !.red_threat_zone = {},
                        !.blue_navmesh = {}, !.red_navmesh = {}]]

\* __getstate__: the persisted state, and the object after the call.
getstate(g) ==
    [state |-> [f \in (DOMAIN g \ Bookkeeping) \ Deleted |-> g[f]],
     live |-> g]

\* An object before __setstate__ fills it: no attribute is set.
Unset ==
    [Game EXCEPT !.culling_points = <<>>,
                 !.blue_threat_zone = {}, !.red_threat_zone = {},
                 !.blue_navmesh = {}, !.red_navmesh = {}]

\* __setstate__: the attributes of the persisted state, then on_load.
setstate(state) ==
    LET g0 == [f \in DOMAIN Unset |->
                  IF f \in DOMAIN state THEN state[f] ELSE Unset[f]]
    IN  on_load(Emit(g0, Ev("setstate", 0, "", g0.turn, 0)))

\* persistency.autosave: pickles the game, which calls __getstate__.
autosave(g) == Emit(getstate(g).live, Ev("autosave", 0, "", g.turn, 0))

\* Mutant: the autosave also runs when a collaborator has failed.
pass_turn_saves_anyway(g, no_action, in) ==
    LET g0 == Emit(g, Ev("pass_turn", 0, "", g.turn, IF no_action THEN 1 ELSE 0))
        g1 == Emit([g0 EXCEPT !.turn = @ + 1], Ev("turn", 0, "", g0.turn + 1, 0))
        g2 == process_turns(g1, controlpoints)
        g3 == Then(g2, process_enemy_income(g2, in))
        g4 == Then(g3, process_player_income(g3, in))
        g5 == Then(g4, strength_step(g4, no_action))
        g6 == Then(g5, regenerate_conditions(g5))
        g7 == Then(g6, initialize_turn(g6, in))
    IN  autosave(g7)

\* Mutant: the strength step runs before upkeep and income, and the
\* conditions are generated before the counter is incremented.
pass_turn_reordered(g, no_action, in) ==
    LET g0 == Emit(g, Ev("pass_turn", 0, "", g.turn, IF no_action THEN 1 ELSE 0))
        g1 == regenerate_conditions(g0)
        g2 == Emit([g1 EXCEPT !.turn = @ + 1], Ev("turn", 0, "", g1.turn + 1, 0))
        g3 == strength_step(g2, no_action)
        g4 == process_turns(g3, controlpoints)
        g5 == process_enemy_income(g4, in)
        g6 == process_player_income(g5, in)
        g7 == initialize_turn(g6, in)
    IN  autosave(g7)

pass_turn(g, no_action, in) ==
    LET g0 == Emit(g, Ev("pass_turn", 0, "", g.turn, IF no_action THEN 1 ELSE 0))
        g1 == Emit([g0 EXCEPT !.turn = @ + 1], Ev("turn", 0, "", g0.turn + 1, 0))
        g2 == process_turns(g1, controlpoints)
        g3 == Then(g2, process_enemy_income(g2, in))
        g4 == Then(g3, process_player_income(g3, in))
        g5 == Then(g4, strength_step(g4, no_action))
        g6 == Then(g5, regenerate_conditions(g5))
        g7 == Then(g6, initialize_turn(g6, in))
    IN  Then(g7, autosave(g7))

(***************************************************************************)
(* What the collaborators may answer.                                      *)
(***************************************************************************)
\* The first control point of the theater owned by the player (by_player) or
\* by the enemy, as a set of at most one element.
FirstPoint(by_player) ==
    LET own == {i \in 1..Len(controlpoints) : captured[controlpoints[i]] = by_player}
    IN  {controlpoints[i] : i \in {i \in own : \A j \in own : i <= j}}

Barcap(by_player) == {[task |-> "BARCAP", target |-> c] : c \in FirstPoint(by_player)}
Strike(by_player) == {[task |-> "STRIKE", target |-> c] : c \in FirstPoint(by_player)}

\* What the collaborators answer in one turn: the two incomes, what the two
\* mission planners plan (BARCAP over an own base, a strike on an opposing
\* base, or nothing) and what the two allocators spend.
Scenario(pi, ei, ps, es, bp, rp) ==
    [player_income |-> pi, enemy_income |-> ei,
     player_spend |-> ps, enemy_spend |-> es, blue_plan |-> bp, red_plan |-> rp]

Inputs ==
    {in \in {Scenario(0, 0, 0, 0, {}, {}),
             Scenario(1, 0, 1, 0, Strike(FALSE), Barcap(FALSE)),
             Scenario(0, 1, 0, 1, Barcap(TRUE), Strike(TRUE)),
             Scenario(1, 1, 0, 0, {}, {}),
             Scenario(1, 1, 1, 1, Strike(FALSE), Strike(TRUE))} :
        /\ budget + in.player_income <= MaxBudget
        /\ enemy_budget + in.enemy_income <= MaxBudget}

Commit(g) ==
    /\ turn' = g.turn
    /\ budget' = g.budget
    /\ enemy_budget' = g.enemy_budget
    /\ strength' = g.strength
    /\ conditions' = g.conditions
    /\ events' = g.events
    /\ blue_ato' = g.blue_ato
    /\ red_ato' = g.red_ato
    /\ ground_planners' = g.ground_planners
    /\ culling_points' = g.culling_points
    /\ blue_threat_zone' = g.blue_threat_zone
    /\ red_threat_zone' = g.red_threat_zone
    /\ blue_navmesh' = g.blue_navmesh
    /\ red_navmesh' = g.red_navmesh
    /\ log' = g.log

(***************************************************************************)
(* Game.__init__: the state after construction, turn-zero procurement      *)
(* included.  At turn zero the planners have no missions to plan.  Both    *)
(* factions start with a budget of 1, of which one of them spends 1 at     *)
(* turn zero.                                                              *)
(***************************************************************************)
game_init(player_budget, starting_enemy_budget, in) ==
    LET g0 == [turn |-> 0, budget |-> player_budget,
               enemy_budget |-> starting_enemy_budget,
               strength |-> [c \in CPIds |-> FULL_STRENGTH],
               conditions |-> generate_conditions(0), events |-> {},
               blue_ato |-> {}, red_ato |-> {}, ground_planners |-> {},
               culling_points |-> <<>>,
               blue_threat_zone |-> {}, red_threat_zone |-> {},
               blue_navmesh |-> {}, red_navmesh |-> {}, log |-> <<>>,
               raised |-> FALSE, fail |-> NoFail]
        g2 == on_load(g0)
        g3 == plan_missions(g2, "blue", {})
        g4 == plan_missions(g3, "red", {})
    IN  plan_procurement(g4, in)

\* The theaters: the first n control points, n = 0..NumCP, the first k of them
\* player-owned; the first control point is of any type, the others are
\* airbases; only a theater of at least two control points has an adjacency.
Theaters ==
    {[controlpoints |-> [i \in 1..n |-> i],
      captured |-> [c \in CPIds |-> c <= k /\ c <= n],
      cptype |-> [c \in CPIds |-> IF c = 1 /\ n >= 1 THEN ty ELSE "airbase"],
      connected |-> cn /\ n >= 2] :
        n \in 0..NumCP, k \in 0..NumCP, ty \in CPTypes, cn \in BOOLEAN}

\* The generator's state in a campaign that is already under way: the turn
\* operations neither read nor write it.
NoGeneration ==
    /\ is_global = [c \in CPIds |-> FALSE]
    /\ do_not_generate_player_navy = FALSE
    /\ do_not_generate_enemy_navy = FALSE
    /\ pending = <<>>
    /\ faction = <<>>
    /\ ground_objects = [c \in CPIds |-> <<>>]
    /\ random = <<>>
    /\ calls = <<>>
    /\ search = <<>>
    /\ current_group_id = 0
    /\ name = [c \in CPIds |-> ""]
    /\ visited = <<>>
    /\ game_generator = <<>>

\* A new campaign, with the setting drawn from settings.
Setup(settings) ==
    /\ \E t \in Theaters :
          /\ controlpoints = t.controlpoints
          /\ captured = t.captured
          /\ cptype = t.cptype
          /\ connected = t.connected
    /\ date = 0
    /\ advances = 0
    /\ perf_do_not_cull_carrier \in settings
    /\ NoGeneration
    /\ \E pb \in {1}, eb \in {1}, ps \in {0, 1}, es \in {0, 1} :
          ps # es /\
          LET g == game_init(pb, eb, [player_spend |-> ps, enemy_spend |-> es])
          IN  /\ turn = g.turn
              /\ budget = g.budget
              /\ enemy_budget = g.enemy_budget
              /\ strength = g.strength
              /\ conditions = g.conditions
              /\ events = g.events
              /\ blue_ato = g.blue_ato
              /\ red_ato = g.red_ato
              /\ ground_planners = g.ground_planners
              /\ culling_points = g.culling_points
              /\ blue_threat_zone = g.blue_threat_zone
              /\ red_threat_zone = g.red_threat_zone
              /\ blue_navmesh = g.blue_navmesh
              /\ red_navmesh = g.red_navmesh
              /\ log = g.log

\* A new campaign with the default settings.
Init == Setup({FALSE})

\* Mutant: the advance hands every control point to the player.
PassTurnCapturing ==
    /\ turn < MaxTurn
    /\ \E no_action \in BOOLEAN, in \in Inputs :
          Commit(pass_turn(Game, no_action, in))
    /\ advances' = advances + 1
    /\ captured' = [c \in DOMAIN captured |-> TRUE]
    /\ UNCHANGED <<controlpoints, cptype, connected, date,
                   perf_do_not_cull_carrier>>
    /\ UNCHANGED genvars

\* pass_turn: neither it nor initialize_turn assigns to a control point's
\* captured or to the theater's list.
PassTurn ==
    /\ turn < MaxTurn
    /\ \E no_action \in BOOLEAN, in \in Inputs :
          Commit(pass_turn(Game, no_action, in))
    /\ advances' = advances + 1
    /\ UNCHANGED <<controlpoints, captured, cptype, connected, date,
                   perf_do_not_cull_carrier>>
    /\ UNCHANGED genvars

(***************************************************************************)
(* finish_event: event.commit(debriefing) applies the mission's result.    *)
(* The result is the collaborator's: nothing, damage to one of the two     *)
(* bases, or the capture of the attacked (enemy) base by the player.       *)
(***************************************************************************)
CommitOutcomes == {"none", "damage", "capture"}
CommitDamage == {10}

finish_event(g, event) ==
    LET g1 == Emit(g, Ev("commit", event[1], "", event[2], 0))
    IN  IF event \in g1.events THEN [g1 EXCEPT !.events = @ \ {event}] ELSE g1

FinishEventWith(outcomes) ==
    \E event \in events, outcome \in outcomes, cp \in CPIds :
        /\ cp \in {event[1], event[2]}
        /\ outcome = "capture" => cp = event[2]
        /\ \E d \in CommitDamage :
             LET g == finish_event(Game, event)
             IN  Commit([g EXCEPT !.strength[cp] =
                            IF outcome = "damage"
                            THEN affect_strength(@, 0 - d) ELSE @])
        /\ captured' = IF outcome = "capture"
                       THEN [captured EXCEPT ![cp] = ~@] ELSE captured
        /\ UNCHANGED <<controlpoints, cptype, connected, date, advances,
                       perf_do_not_cull_carrier>>
        /\ UNCHANGED genvars

FinishEvent == FinishEventWith(CommitOutcomes)

Next == PassTurn \/ FinishEvent

Spec == Init /\ [][Next]_vars

(***************************************************************************)
(* A session: a campaign with either setting, in which the game may be     *)
(* saved and loaded again.  The allocators spend what the turn brought in. *)
(***************************************************************************)
InitSession == Setup(BOOLEAN)

SessionInputs ==
    {in \in Inputs : /\ in.player_spend = in.player_income
                     /\ in.enemy_spend = in.enemy_income}

PassTurnSession ==
    /\ turn < MaxTurn
    /\ \E no_action \in {FALSE}, in \in SessionInputs :
          Commit(pass_turn(Game, no_action, in))
    /\ advances' = advances + 1
    /\ UNCHANGED <<controlpoints, captured, cptype, connected, date,
                   perf_do_not_cull_carrier>>
    /\ UNCHANGED genvars

\* The game is saved (pickled) and the save is loaded.
LoadGame ==
    /\ \E state \in {getstate(Game).state} : Commit(setstate(state))
    /\ UNCHANGED <<controlpoints, captured, cptype, connected, date, advances,
                   perf_do_not_cull_carrier>>
    /\ UNCHANGED genvars

\* A mission that leaves the strengths as they are.
FinishEventSession == FinishEventWith({"none", "capture"})

NextSession == PassTurnSession \/ FinishEventSession \/ LoadGame

SpecSession == InitSession /\ [][NextSession]_vars

(***************************************************************************)
(* A theater without front lines: one control point more than in the other *)
(* campaigns, in any order, none adjacent to another, no carriers.         *)
(***************************************************************************)
ScatteredIds == 1..(NumCP + 1)

\* The lists of all the control points.
Orders ==
    {s \in [ScatteredIds -> ScatteredIds] : Range(s) = ScatteredIds}

InitScattered ==
    /\ controlpoints \in Orders
    /\ captured \in [ScatteredIds -> BOOLEAN]
    /\ cptype = [c \in ScatteredIds |-> "airbase"]
    /\ connected = FALSE
    /\ date = 0
    /\ advances = 0
    /\ perf_do_not_cull_carrier = FALSE
    /\ NoGeneration
    /\ strength = [c \in ScatteredIds |-> FULL_STRENGTH]
    /\ \E g \in {game_init(1, 1, [player_spend |-> 0, enemy_spend |-> 1])} :
          /\ turn = g.turn
          /\ budget = g.budget
          /\ enemy_budget = g.enemy_budget
          /\ conditions = g.conditions
          /\ events = g.events
          /\ blue_ato = g.blue_ato
          /\ red_ato = g.red_ato
          /\ ground_planners = g.ground_planners
          /\ culling_points = g.culling_points
          /\ blue_threat_zone = g.blue_threat_zone
          /\ red_threat_zone = g.red_threat_zone
          /\ blue_navmesh = g.blue_navmesh
          /\ red_navmesh = g.red_navmesh
          /\ log = g.log

NextScattered == PassTurnSession \/ LoadGame

SpecScattered == InitScattered /\ [][NextScattered]_vars

(***************************************************************************)
(* Failing collaborators: during an advance one collaborator call may      *)
(* raise.  The exception leaves pass_turn; what the caller does with the   *)
(* game after it is not followed.                                          *)
(***************************************************************************)
FailPoints ==
    {[op |-> "process_turn", side |-> ""],
     [op |-> "income", side |-> "red"], [op |-> "income", side |-> "blue"],
     [op |-> "plan_missions", side |-> "blue"],
     [op |-> "plan_missions", side |-> "red"],
     [op |-> "plan_groundwar", side |-> ""],
     [op |-> "spend_budget", side |-> "blue"],
     [op |-> "spend_budget", side |-> "red"]}

Raised == Len(log) > 0 /\ log[Len(log)].op = "raise"

PassTurnFailing ==
    /\ ~Raised
    /\ turn < MaxTurn
    /\ \E no_action \in {FALSE}, in \in SessionInputs,
          fail \in FailPoints \cup {NoFail} :
          Commit(pass_turn([Game EXCEPT !.fail = fail], no_action, in))
    /\ advances' = advances + 1
    /\ UNCHANGED <<controlpoints, captured, cptype, connected, date,
                   perf_do_not_cull_carrier>>
    /\ UNCHANGED genvars

FinishEventFailing == ~Raised /\ FinishEventWith({"none", "capture"})

NextFailing == PassTurnFailing \/ FinishEventFailing

SpecFailing == Init /\ [][NextFailing]_vars

(***************************************************************************)
(* find_location: the search for a place to put an installation.           *)
(*                                                                         *)
(* The map is cut along an east-west line: a point is its coordinate on    *)
(* that line, a distance is the difference of two coordinates, and the     *)
(* terrain is given by the stretches of the line that are land and the     *)
(* stretches that are sea (a stretch may be neither: a shore, a lake, the  *)
(* outside of the map).  Optional[Point] is a list of at most one point.   *)
(***************************************************************************)
None == <<>>
Some(p) == <<p>>

range(a, b, step) == [i \in 1..((b - a + step - 1) \div step) |-> a + (i - 1) * step]

Abs(n) == IF n < 0 THEN 0 - n ELSE n

distance(p, q) == Abs(p - q)

\* The sine of a heading, in thousandths: the eastward part of a step.
SinThousandths(angle) ==
    CASE angle \in {0, 180} -> 0
      [] angle \in {45, 135} -> 707
      [] angle = 90 -> 1000
      [] angle \in {225, 315} -> 0 - 707
      [] angle = 270 -> 0 - 1000

point_from_heading(p, angle, d) ==
    LET east == d * SinThousandths(angle)
    IN  p + (IF east < 0 THEN 0 - ((0 - east) \div 1000) ELSE east \div 1000)

is_on_land(theater, p) == \E s \in theater.land : s[1] <= p /\ p <= s[2]
is_in_sea(theater, p) == \E s \in theater.sea : s[1] <= p /\ p <= s[2]

\* The k-th point near.random_point_within(max_range, min_range) yields: the
\* stream of random points repeats itself.
draw(a, k) == ((k - 1) % Len(a.stream)) + 1

random_point_within(a, k) == a.stream[draw(a, k)]

\* The terrain test of both the candidate and the points around it.
terrain_ok(a, p) ==
    IF a.on_ground THEN is_on_land(a.theater, p) ELSE is_in_sea(a.theater, p)

\* The points around a candidate, in the order they are tested.
probe_points(point) ==
    LET angles == range(0, 360, 45)
    IN  [i \in DOMAIN angles |-> point_from_heading(point, angles[i], 2500)]

\* Lines 475-483: the loop over the headings stops at the first point of the
\* wrong terrain.  Yields the point kept and the number of points tested.
probe_none(a, point) == [point |-> point, probes |-> 0]

probe(a, point) ==
    IF point = None THEN [point |-> None, probes |-> 0]
    ELSE LET ps == probe_points(point[1])
             bad == {i \in DOMAIN ps : ~terrain_ok(a, ps[i])}
         IN  IF bad = {} THEN [point |-> point, probes |-> Len(ps)]
             ELSE [point |-> None,
                   probes |-> CHOOSE i \in bad : \A j \in bad : i <= j]

\* Lines 484-488.
check_others_nothing(a, point) == point

check_others(a, point) ==
    IF point = None THEN None
    ELSE IF \E i \in DOMAIN a.others : distance(a.others[i], point[1]) < 10000
         THEN None ELSE point

\* Lines 490-503, from the i-th control point of the theater on.
RECURSIVE check_control_points_from(_, _, _)
check_control_points_from(a, point, i) ==
    LET cps == a.theater.controlpoints
    IN  IF i > Len(cps) THEN point
        ELSE IF a.is_base_defense THEN point
        ELSE IF cps[i].position # a.near
             THEN IF point = None THEN point
                  ELSE IF distance(cps[i].position, point[1]) < 30000
                       THEN None
                       ELSE check_control_points_from(a,
                              IF \E j \in DOMAIN cps[i].ground_objects :
                                    distance(cps[i].ground_objects[j],
                                             point[1]) < 10000
                              THEN None ELSE point,
                              i + 1)
             ELSE check_control_points_from(a, point, i + 1)

check_control_points_bases_only(a, point) ==
    IF point = None \/ a.is_base_defense THEN point
    ELSE IF \E i \in DOMAIN a.theater.controlpoints :
              /\ a.theater.controlpoints[i].position # a.near
              /\ distance(a.theater.controlpoints[i].position, point[1]) < 30000
         THEN None ELSE point

check_control_points(a, point) ==
    IF point = None THEN None ELSE check_control_points_from(a, point, 1)

\* One pass of the loop, lines 469-503, entered with `point` as the pass
\* before left it and drawing p.  It yields the point it ends with, and what
\* it did on the way: the number of points probed, and whether the loops over
\* the installations and control points were entered.
attempt(a, point, p) ==
    LET point1 == IF terrain_ok(a, p) THEN Some(p) ELSE point
        probed == probe(a, point1)
        point3 == check_others(a, probed.point)
        point4 == check_control_points(a, point3)
    IN  [p |-> p, probes |-> probed.probes, separation |-> probed.point # None,
         point |-> point4]

RECURSIVE Each(_, _)
Each(f(_), s) == IF s = <<>> THEN <<>> ELSE <<f(Head(s))>> \o Each(f, Tail(s))

\* The passes of the loop, were none of them to return.  A pass is entered
\* with point = None, since a pass that ends with a point returns it (line
\* 505): what a pass yields depends on the point it draws alone.
passes(a) ==
    LET per == Each(LAMBDA p : attempt(a, None, p), a.stream)
    IN  [k \in DOMAIN range(0, 300, 1) |-> per[draw(a, k)]]

\* Lines 465-506: the first pass that ends with a point returns it; trace
\* lists the passes made.
find_location_last(a) ==
    LET ps == passes(a)
        found == {k \in DOMAIN ps : ps[k].point # None}
    IN  IF found = {} THEN [point |-> None, trace |-> ps]
        ELSE [point |-> ps[CHOOSE k \in found : \A j \in found : j <= k].point,
              trace |-> ps]

find_location(a) ==
    LET ps == passes(a)
        found == {k \in DOMAIN ps : ps[k].point # None}
    IN  IF found = {} THEN [point |-> None, trace |-> ps]
        ELSE LET first == CHOOSE k \in found : \A j \in found : k <= j
             IN  [point |-> ps[first].point, trace |-> SubSeq(ps, 1, first)]

(***************************************************************************)
(* The searches that are followed.  The control point searched around is   *)
(* at 0; the theater may hold it and up to two others, which may have      *)
(* installations of their own; the stream of candidates repeats after      *)
(* MaxDraws draws at most.                                                 *)
(***************************************************************************)
MaxDraws == 2

Ranges == {<<10000, 40000>>, <<800, 3200>>}

Candidates == {10000, 20000, 20001, 0 - 10000, 0 - 20000, 800, 0 - 3200}

\* All land; all sea; a coast, with a shore that is neither land nor sea.
Terrains ==
    {[land |-> {<<0 - 100000, 100000>>}, sea |-> {}],
     [land |-> {}, sea |-> {<<0 - 100000, 100000>>}],
     [land |-> {<<0 - 12000, 100000>>}, sea |-> {<<0 - 100000, 0 - 17000>>}]}

\* The positions of the installations passed as `others`.
Existing == {<<>>, <<30000, 0 - 35000>>}

TheaterControlPoints ==
    {<<>>,
     <<[position |-> 0, ground_objects |-> <<10000>>],
       [position |-> 50000, ground_objects |-> <<>>]>>,
     <<[position |-> 70000, ground_objects |-> <<30000, 90000>>],
       [position |-> 0, ground_objects |-> <<20000>>],
       [position |-> 0 - 50000, ground_objects |-> <<>>]>>}

Streams(r) ==
    LET near == {p \in Candidates : r[1] <= Abs(p) /\ Abs(p) <= r[2]}
    IN  UNION {[1..n -> near] : n \in 1..MaxDraws}

Searches ==
    UNION {
      {[on_ground |-> og, near |-> 0,
        theater |-> [land |-> t.land, sea |-> t.sea, controlpoints |-> cps],
        min_range |-> r[1], max_range |-> r[2], others |-> ex,
        is_base_defense |-> bd, stream |-> st,
        called |-> FALSE, point |-> None, trace |-> <<>>] :
          og \in BOOLEAN, t \in Terrains, cps \in TheaterControlPoints,
          ex \in Existing, bd \in BOOLEAN, st \in Streams(r)} :
      r \in Ranges}

\* No turn of the campaign was played while the generator works.
NotStarted ==
    /\ strength = [c \in CPIds |-> FULL_STRENGTH]
    /\ turn = 0
    /\ date = 0
    /\ budget = 0
    /\ enemy_budget = 0
    /\ conditions = <<>>
    /\ events = {}
    /\ blue_ato = {}
    /\ red_ato = {}
    /\ ground_planners = {}
    /\ culling_points = <<>>
    /\ blue_threat_zone = {}
    /\ red_threat_zone = {}
    /\ blue_navmesh = {}
    /\ red_navmesh = {}
    /\ perf_do_not_cull_carrier = FALSE
    /\ log = <<>>
    /\ advances = 0

turnvars == <<strength, turn, date, budget, enemy_budget, conditions, events,
              blue_ato, red_ato, ground_planners, culling_points,
              blue_threat_zone, red_threat_zone, blue_navmesh, red_navmesh,
              perf_do_not_cull_carrier, log, advances>>

\* A search is followed outside of any theater of the model.
NoGame ==
    /\ controlpoints = <<>>
    /\ captured = [c \in CPIds |-> FALSE]
    /\ cptype = [c \in CPIds |-> "airbase"]
    /\ connected = FALSE
    /\ NotStarted

gamevars == <<controlpoints, captured, cptype, connected, strength, turn, date,
              budget, enemy_budget, conditions, events, blue_ato, red_ato,
              ground_planners, culling_points, blue_threat_zone,
              red_threat_zone, blue_navmesh, red_navmesh,
              perf_do_not_cull_carrier, log, advances>>

InitPlacement ==
    /\ NoGame
    /\ is_global = [c \in CPIds |-> FALSE]
    /\ do_not_generate_player_navy = FALSE
    /\ do_not_generate_enemy_navy = FALSE
    /\ pending = <<>>
    /\ faction = <<>>
    /\ ground_objects = [c \in CPIds |-> <<>>]
    /\ random = <<>>
    /\ calls = <<>>
    /\ current_group_id = 0
    /\ name = [c \in CPIds |-> ""]
    /\ visited = <<>>
    /\ game_generator = <<>>
    /\ search \in Searches

FindLocation ==
    /\ ~search.called
    /\ LET r == find_location(search)
       IN  search' = [search EXCEPT !.called = TRUE, !.point = r.point,
                                    !.trace = r.trace]
    /\ UNCHANGED gamevars
    /\ UNCHANGED <<is_global, do_not_generate_player_navy,
                   do_not_generate_enemy_navy, pending, faction,
                   ground_objects, random, calls, current_group_id, name,
                   visited, game_generator>>

NextPlacement == FindLocation

SpecPlacement == InitPlacement /\ [][NextPlacement]_vars

(***************************************************************************)
(* The ground object generator.  Its operations work on w, the world being *)
(* generated: the theater, the factions, the installations placed so far,  *)
(* the random module, and the list of the calls made.                      *)
(*                                                                         *)
(* Three things come from outside: the numbers the random module yields,   *)
(* whether a find_location call finds a place, and whether a group         *)
(* generator yields a group (it yields None when the faction has no unit   *)
(* for it).  Each is a stream that repeats itself, read in call order.     *)
(***************************************************************************)
World ==
    [controlpoints |-> controlpoints, captured |-> captured,
     cptype |-> cptype, is_global |-> is_global,
     do_not_generate_player_navy |-> do_not_generate_player_navy,
     do_not_generate_enemy_navy |-> do_not_generate_enemy_navy,
     faction |-> faction, ground_objects |-> ground_objects,
     random |-> random, calls |-> <<>>,
     current_group_id |-> current_group_id, name |-> name]

\* Evaluates v once and hands its value to f: the worlds are threaded through
\* the calls by value.
Bind(v, f(_)) == CHOOSE r \in {f(x) : x \in {v}} : TRUE

\* random.randint(a, b), and the module after the call.
next_number(w) == w.random.numbers[(w.random.k % Len(w.random.numbers)) + 1]

randint(w, a, b) == a + (next_number(w) % (b - a + 1))

\* random.randrange(a, b)
randrange(w, a, b) == randint(w, a, b - 1)

\* random.choice(s)
choice(w, s) == s[randint(w, 1, Len(s))]

drawn(w) == [w EXCEPT !.random.k = (@ + 1) % Len(w.random.numbers)]

\* The faction of the side that holds the control point.
faction_name(w, cp) == IF w.captured[cp] THEN "blue" ELSE "red"

faction_of(w, cp) == w.faction[faction_name(w, cp)]

\* One entry of the list of calls: the call of a control point's generator;
\* a find_location call, with its arguments, the installation list of the
\* control point and the game's group id counter at the time, and its
\* outcome; or the call of a group generator, with its outcome.  `by` is the function that makes the call,
\* index the base defense's, category the building's.
Call(w, fn, by, cp, index, category, args, result) ==
    [fn |-> fn, by |-> by, cp |-> cp, index |-> index, category |-> category,
     on_ground |-> args.on_ground, min_range |-> args.min_range,
     max_range |-> args.max_range, others |-> args.others,
     is_base_defense |-> args.is_base_defense,
     existing |-> w.ground_objects[cp],
     current_group_id |-> w.current_group_id, result |-> result]

Args(on_ground, min_range, max_range, others, is_base_defense) ==
    [on_ground |-> on_ground, min_range |-> min_range,
     max_range |-> max_range, others |-> others,
     is_base_defense |-> is_base_defense]

NoArgs == Args(FALSE, 0, 0, <<>>, FALSE)

\* A find_location call by the generator `by` for the control point cp.
locate(w, by, cp, index, category, args) ==
    LET found == w.random.places[(w.random.f % Len(w.random.places)) + 1]
    IN  [w EXCEPT !.random.f = (@ + 1) % Len(w.random.places),
                  !.calls = Append(@, Call(w, "find_location", by, cp, index,
                                           category, args, found))]

\* A call of the group generator fn.
generate_group(w, fn, by, cp, index) ==
    LET group == w.random.groups[(w.random.u % Len(w.random.groups)) + 1]
    IN  [w EXCEPT !.random.u = (@ + 1) % Len(w.random.groups),
                  !.calls = Append(@, Call(w, fn, by, cp, index, "", NoArgs,
                                           group))]

\* The outcome of the call made last.
result(w) == w.calls[Len(w.calls)].result

\* Game.next_group_id; the id it returns is the counter after the call.
next_group_id_stuck(w) == w

next_group_id(w) == [w EXCEPT !.current_group_id = @ + 1]

\* An installation: its class, its category, whether it has a group (a
\* building has none), its identifier pair and its control point.  Only a
\* building is given an object id by the generator.
TheaterGroundObject(kind, category, has_group, group_id, object_id, cp) ==
    [kind |-> kind, category |-> category, has_group |-> has_group,
     group_id |-> group_id, object_id |-> object_id, control_point |-> cp]

append(w, cp, g) == [w EXCEPT !.ground_objects[cp] = Append(@, g)]

\* self.templates[category]: the templates of a category, each the number of
\* its units.
templates(category) == IF category = "oil" THEN <<1>> ELSE <<2, 1>>

\* Lines 239-247: one BuildingGroundObject per unit of the template.
RECURSIVE append_units(_, _, _, _, _)
append_units(w, cp, category, units, object_id) ==
    IF object_id >= units THEN w
    ELSE append_units(append(w, cp,
                             TheaterGroundObject("building", category, FALSE,
                                                 w.current_group_id,
                                                 object_id + 1, cp)),
                      cp, category, units, object_id + 1)

generate_ground_point_on_land(w, cp, category) ==
    LET template == choice(w, templates(category))
    IN  Bind(locate(drawn(w), "generate_ground_point", cp, 0, category,
                    Args(TRUE, 10000, 40000, w.ground_objects[cp], FALSE)),
             LAMBDA w1 : IF ~result(w1) THEN w1
                         ELSE append_units(next_group_id(w1), cp, category,
                                           template, 0))

generate_ground_point(w, cp, category) ==
    LET template == choice(w, templates(category))
    IN  Bind(locate(drawn(w), "generate_ground_point", cp, 0, category,
                    Args(category # "oil", 10000, 40000,
                         w.ground_objects[cp], FALSE)),
             LAMBDA w1 : IF ~result(w1) THEN w1
                         ELSE append_units(next_group_id(w1), cp, category,
                                           template, 0))

generate_aa_site(w, cp) ==
    Bind(locate(w, "generate_aa_site", cp, 0, "",
                Args(TRUE, 10000, 40000, w.ground_objects[cp], FALSE)),
         LAMBDA w1 :
            IF ~result(w1) THEN w1
            ELSE Bind(generate_group(next_group_id(w1),
                                     "generate_anti_air_group",
                                     "generate_aa_site", cp, 0),
                      LAMBDA w2 : append(w2, cp,
                                         TheaterGroundObject(
                                             "aa", "aa", result(w2),
                                             w2.current_group_id, 0, cp))))

RECURSIVE objectives_inclusive(_, _, _, _)
objectives_inclusive(w, cp, i, amount) ==
    IF i > amount THEN w
    ELSE Bind(IF randint(w, 0, 3) = 0 THEN generate_aa_site(drawn(w), cp)
              ELSE generate_ground_point(
                       drawn(drawn(w)), cp,
                       choice(drawn(w), faction_of(w, cp).building_set)),
              LAMBDA w2 : objectives_inclusive(w2, cp, i + 1, amount))

\* Lines 214-220, the passes from the i-th on.
RECURSIVE objectives(_, _, _, _)
objectives(w, cp, i, amount) ==
    IF i >= amount THEN w
    ELSE Bind(IF randint(w, 0, 3) = 0 THEN generate_aa_site(drawn(w), cp)
              ELSE generate_ground_point(
                       drawn(drawn(w)), cp,
                       choice(drawn(w), faction_of(w, cp).building_set)),
              LAMBDA w2 : objectives(w2, cp, i + 1, amount))

generate_ground_points(w, cp) ==
    IF w.is_global[cp] THEN w
    ELSE LET available_categories == faction_of(w, cp).building_set
         IN  IF available_categories = <<>> THEN w
             ELSE Bind(generate_aa_site(w, cp),
                       LAMBDA w1 : objectives(drawn(w1), cp, 0,
                                              randrange(w1, 2, 7)))

generate_ship(w, cp) ==
    Bind(locate(w, "generate_ship", cp, 0, "",
                Args(FALSE, 5000, 40000, <<>>, FALSE)),
         LAMBDA w1 :
            IF ~result(w1) THEN w1
            ELSE Bind(generate_group(next_group_id(w1), "generate_ship_group",
                                     "generate_ship", cp, 0),
                      LAMBDA w2 :
                         IF result(w2)
                         THEN append(w2, cp,
                                     TheaterGroundObject(
                                         "ship", "aa", TRUE,
                                         w2.current_group_id, 0, cp))
                         ELSE w2))

generate_missile_site(w, cp) ==
    Bind(locate(w, "generate_missile_site", cp, 0, "",
                Args(TRUE, 2500, 40000, <<>>, FALSE)),
         LAMBDA w1 :
            IF ~result(w1) THEN w1
            ELSE Bind(generate_group(next_group_id(w1),
                                     "generate_missile_group",
                                     "generate_missile_site", cp, 0),
                      LAMBDA w2 :
                         IF result(w2)
                         THEN append(w2, cp,
                                     TheaterGroundObject(
                                         "missile", "aa", TRUE,
                                         w2.current_group_id, 0, cp))
                         ELSE w2))

\* for _ in range(count): step()
RECURSIVE repeat(_, _, _, _)
repeat(step(_, _), w, cp, count) ==
    IF count <= 0 THEN w
    ELSE Bind(step(w, cp), LAMBDA w1 : repeat(step, w1, cp, count - 1))

generate_navy(w, cp) ==
    IF w.captured[cp] /\ w.do_not_generate_player_navy THEN w
    ELSE IF ~w.captured[cp] /\ w.do_not_generate_enemy_navy THEN w
    ELSE repeat(generate_ship, w, cp, faction_of(w, cp).navy_group_count)

generate_missile_sites(w, cp) ==
    repeat(generate_missile_site, w, cp, faction_of(w, cp).missiles_group_count)

\* ControlPointGroundObjectGenerator.generate: yields the world and the value
\* returned.
generate(w, cp) ==
    Bind([w EXCEPT !.ground_objects[cp] = <<>>,
                   !.calls = Append(@, Call([w EXCEPT !.ground_objects[cp] = <<>>],
                                            "generate", "", cp, 0, "",
                                            NoArgs, TRUE))],
         LAMBDA w0 :
    Bind(generate_ground_points(w0, cp),
         LAMBDA w1 :
    Bind(IF faction_of(w, cp).navy_generators # <<>>
         THEN generate_navy(w1, cp) ELSE w1,
         LAMBDA w2 :
    Bind(IF faction_of(w, cp).missiles # <<>>
         THEN generate_missile_sites(w2, cp) ELSE w2,
         LAMBDA w3 : [w |-> w3, ok |-> TRUE]))))

\* generate_airbase_defense_group: the group generator called for an index.
generate_airbase_defense_group(w, cp, id) ==
    IF id = 0
    THEN generate_group(w, "generate_armor_group", "generate_sam", cp, id)
    ELSE IF id = 1 /\ randint(w, 0, 1) = 0
    THEN generate_group(drawn(w), "generate_anti_air_group", "generate_sam",
                        cp, id)
    ELSE LET w1 == IF id = 1 THEN drawn(w) ELSE w
         IN  IF randint(w1, 0, 2) = 1
             THEN generate_group(drawn(w1), "generate_shorad_group",
                                 "generate_sam", cp, id)
             ELSE generate_group(drawn(w1), "generate_armor_group",
                                 "generate_sam", cp, id)

\* Mutant: the group id is taken before the search.
generate_sam_eager(w, cp, index) ==
    Bind(locate(next_group_id(w), "generate_sam", cp, index, "",
                Args(TRUE, 800, 3200, <<>>, TRUE)),
         LAMBDA w1 :
            IF ~result(w1) THEN w1
            ELSE Bind(generate_airbase_defense_group(w1, cp, index),
                      LAMBDA w2 : append(w2, cp,
                                         TheaterGroundObject(
                                             "base_defense", "aa", result(w2),
                                             w2.current_group_id, 0, cp))))

generate_sam(w, cp, index) ==
    Bind(locate(w, "generate_sam", cp, index, "",
                Args(TRUE, 800, 3200, <<>>, TRUE)),
         LAMBDA w1 :
            IF ~result(w1) THEN w1
            ELSE Bind(generate_airbase_defense_group(next_group_id(w1), cp,
                                                     index),
                      LAMBDA w2 : append(w2, cp,
                                         TheaterGroundObject(
                                             "base_defense", "aa", result(w2),
                                             w2.current_group_id, 0, cp))))

\* for i in range(n): self.generate_sam(i), from i on.
RECURSIVE generate_sams(_, _, _, _)
generate_sams(w, cp, i, n) ==
    IF i >= n THEN w
    ELSE Bind(generate_sam(w, cp, i),
              LAMBDA w1 : generate_sams(w1, cp, i + 1, n))

AirbaseGroundObjectGenerator_generate(w, cp) ==
    Bind(generate(w, cp),
         LAMBDA r :
            IF ~r.ok THEN r
            ELSE [w |-> generate_sams(drawn(r.w), cp, 0, randint(r.w, 3, 6)),
                  ok |-> TRUE])

\* self.control_point.name = random.choice(names)
rename(w, cp, names) == drawn([w EXCEPT !.name[cp] = choice(w, names)])

\* CarrierGroundObjectGenerator.generate and LhaGroundObjectGenerator.generate
\* differ in the names, the class of the installation and the group generator.
ship_generate(w, cp, names, kind, fn) ==
    Bind(generate(w, cp),
         LAMBDA r :
            IF ~r.ok THEN r
            ELSE IF names = <<>> THEN [w |-> r.w, ok |-> FALSE]
            ELSE Bind(generate_group(next_group_id(r.w), fn, "generate", cp,
                                     0),
                      LAMBDA w1 :
                         [w |-> rename(append(w1, cp,
                                              TheaterGroundObject(
                                                  kind, "CARRIER", result(w1),
                                                  w1.current_group_id, 0, cp)),
                                       cp, names),
                          ok |-> TRUE]))

CarrierGroundObjectGenerator_generate(w, cp) ==
    ship_generate(w, cp, faction_of(w, cp).carrier_names, "carrier",
                  "generate_carrier_group")

LhaGroundObjectGenerator_generate(w, cp) ==
    ship_generate(w, cp, faction_of(w, cp).helicopter_carrier_names, "lha",
                  "generate_lha_group")

generate_for_control_point(w, cp) ==
    IF w.cptype[cp] = "carrier" THEN CarrierGroundObjectGenerator_generate(w, cp)
    ELSE IF w.cptype[cp] = "lha" THEN LhaGroundObjectGenerator_generate(w, cp)
    ELSE AirbaseGroundObjectGenerator_generate(w, cp)

\* list.remove(x)
remove(s, x) == SelectSeq(s, LAMBDA e : e # x)

\* Mutant: a control point whose generator returns False stays in the list.
generate_pass_keeping(w, cp) ==
    Bind(generate_for_control_point(w, cp), LAMBDA r : r.w)

\* One pass of the loop of GroundObjectGenerator.generate, lines 410-412.
generate_pass(w, cp) ==
    Bind(generate_for_control_point(w, cp),
         LAMBDA r : IF r.ok THEN r.w
                    ELSE [r.w EXCEPT !.controlpoints = remove(@, cp)])

(***************************************************************************)
(* The generations that are followed.                                      *)
(***************************************************************************)
Full ==
    [building_set |-> <<"factory", "oil">>,
     navy_generators |-> <<"navy">>, navy_group_count |-> 1,
     missiles |-> <<"scud">>, missiles_group_count |-> 1,
     carrier_names |-> <<"CVN-71", "CVN-72">>,
     helicopter_carrier_names |-> <<"LHA-1">>]

Landlocked ==
    [building_set |-> <<"factory">>,
     navy_generators |-> <<>>, navy_group_count |-> 0,
     missiles |-> <<"scud">>, missiles_group_count |-> 2,
     carrier_names |-> <<"CVN-71">>, helicopter_carrier_names |-> <<>>]

Seafaring ==
    [building_set |-> <<>>,
     navy_generators |-> <<"navy">>, navy_group_count |-> 2,
     missiles |-> <<>>, missiles_group_count |-> 0,
     carrier_names |-> <<>>, helicopter_carrier_names |-> <<"LHA-1">>]

\* db.FACTIONS, for the player's faction and the enemy's.
Factions ==
    {[blue |-> Full, red |-> Full], [blue |-> Landlocked, red |-> Seafaring],
     [blue |-> Seafaring, red |-> Landlocked], [blue |-> Full, red |-> Seafaring]}

\* What the generator is given of the settings and of the control points'
\* kind: whether the control points are global, and whose navy is left out.
Options ==
    {[is_global |-> FALSE, skip |-> "none"], [is_global |-> TRUE, skip |-> "none"],
     [is_global |-> FALSE, skip |-> "player"],
     [is_global |-> FALSE, skip |-> "enemy"]}

\* The streams of the random module, of the searches and of the group
\* generators.
Randoms ==
    {[numbers |-> ns, places |-> o[1], groups |-> o[2],
      k |-> 0, f |-> 0, u |-> 0] :
        ns \in {<<1>>, <<2>>, <<3>>, <<4>>, <<0, 1, 1>>},
        o \in {<<<<TRUE>>, <<TRUE>>>>, <<<<FALSE>>, <<TRUE>>>>,
               <<<<TRUE, FALSE>>, <<TRUE>>>>, <<<<TRUE>>, <<TRUE, FALSE>>>>}}

\* Game.__init__, called by GameGenerator.generate at line 75: the game the
\* ground object generator is given has been constructed, turn-zero planning
\* and procurement included.
Constructed ==
    /\ date = 0
    /\ advances = 0
    /\ perf_do_not_cull_carrier = FALSE
    /\ \E g \in {game_init(1, 1, [player_spend |-> 0, enemy_spend |-> 1])} :
          /\ turn = g.turn
          /\ budget = g.budget
          /\ enemy_budget = g.enemy_budget
          /\ strength = g.strength
          /\ conditions = g.conditions
          /\ events = g.events
          /\ blue_ato = g.blue_ato
          /\ red_ato = g.red_ato
          /\ ground_planners = g.ground_planners
          /\ culling_points = g.culling_points
          /\ blue_threat_zone = g.blue_threat_zone
          /\ red_threat_zone = g.red_threat_zone
          /\ blue_navmesh = g.blue_navmesh
          /\ red_navmesh = g.red_navmesh
          /\ log = g.log

InitGenerate ==
    /\ \E t \in Theaters :
          /\ controlpoints = t.controlpoints
          /\ captured = t.captured
          /\ cptype = t.cptype
          /\ connected = t.connected
    /\ Constructed
    /\ \E o \in Options :
          /\ is_global = [c \in CPIds |-> o.is_global]
          /\ do_not_generate_player_navy = (o.skip = "player")
          /\ do_not_generate_enemy_navy = (o.skip = "enemy")
    /\ faction \in Factions
    /\ random \in Randoms
    /\ ground_objects = [c \in CPIds |-> <<>>]
    /\ pending = controlpoints
    /\ calls = <<>>
    /\ search = <<>>
    /\ current_group_id = 0
    /\ name = [c \in CPIds |-> "base"]
    /\ visited = <<>>
    /\ game_generator = <<>>

\* GroundObjectGenerator.generate visits the next control point.
GenerateForControlPoint ==
    /\ pending # <<>>
    /\ \E w \in {generate_pass(World, Head(pending))} :
           /\ controlpoints' = w.controlpoints
           /\ ground_objects' = w.ground_objects
           /\ random' = w.random
           /\ calls' = w.calls
           /\ current_group_id' = w.current_group_id
           /\ name' = w.name
    /\ pending' = Tail(pending)
    /\ visited' = Append(visited, Head(pending))
    /\ UNCHANGED turnvars
    /\ UNCHANGED <<captured, cptype, connected, is_global,
                   do_not_generate_player_navy, do_not_generate_enemy_navy,
                   faction, search, game_generator>>

NextGenerate == GenerateForControlPoint

SpecGenerate == InitGenerate /\ [][NextGenerate]_vars

(***************************************************************************)
(* GameGenerator.prepare_theater and GameGenerator.populate_red_airbases,  *)
(* the two steps of GameGenerator.generate that precede the construction   *)
(* of the game.  They work on the theater t (the list of control points    *)
(* and their ownership) under the options of the generator gg.             *)
(***************************************************************************)
\* The bounds of a control point's importance, in tenths.
IMPORTANCE_LOW == 10
IMPORTANCE_HIGH == 14

\* control_point.captured = True, for the control points of the list cps.
capture(t, cps) ==
    [t EXCEPT !.captured = [c \in DOMAIN @ |-> @[c] \/ c \in Range(cps)]]

\* Lines 92-95.
capture_half(gg, t) ==
    IF gg.midgame
    THEN capture(t, SubSeq(t.controlpoints, 1, Len(t.controlpoints) \div 2))
    ELSE t

\* Lines 98-105: the carriers and LHAs that are not to be generated.
to_remove(gg, t) ==
    SelectSeq(t.controlpoints,
              LAMBDA cp : \/ t.cptype[cp] = "carrier" /\ gg.do_not_generate_carrier
                          \/ t.cptype[cp] = "lha" /\ gg.do_not_generate_lha)

\* Lines 107-108.
invert(gg, t) ==
    IF gg.inverted
    THEN [t EXCEPT !.captured =
             [c \in DOMAIN @ |-> IF c \in Range(t.controlpoints)
                                 THEN gg.captured_invert[c] ELSE @[c]]]
    ELSE t

reversed(s) == [i \in 1..Len(s) |-> s[Len(s) + 1 - i]]

\* Lines 117-121, from the i-th control point of the reversed list on.
RECURSIVE reapply_midgame(_, _, _)
reapply_midgame(t, cps, i) ==
    IF cps = <<>> THEN t
    ELSE IF i > Len(t.controlpoints) THEN t
    ELSE reapply_midgame(capture(t, <<Head(cps)>>), Tail(cps), i + 1)

prepare_theater(gg, t) ==
    Bind(invert(gg, capture_half(gg, t)),
         LAMBDA t2 :
    Bind([t2 EXCEPT !.controlpoints =
             SelectSeq(@, LAMBDA cp : cp \notin Range(to_remove(gg, t)))],
         LAMBDA t3 :
            IF gg.midgame /\ gg.inverted
            THEN reapply_midgame(t3, reversed(t3.controlpoints), 0)
            ELSE t3))

\* Lines 123-127: the control points populate_red_airbases populates.
red_airbases(t) == SelectSeq(t.controlpoints, LAMBDA cp : ~t.captured[cp])

\* The tasks of line 137.
Tasks == <<"PinpointStrike", "CAP", "CAS", "AirDefence">>

\* Lines 137-159, for the tasks of the list: b is the base of the control
\* point, with what was commissioned and the error raised, if any.
\* db.choose_units yields gg.unit_types[task]; math.log raises a ValueError
\* for a number that is not positive.
RECURSIVE commission_tasks(_, _, _, _)
commission_tasks(gg, b, importance, tasks) ==
    IF tasks = <<>> THEN b
    ELSE IF IMPORTANCE_HIGH <= importance /\ importance <= IMPORTANCE_LOW
    THEN [b EXCEPT !.raised = "CP importance must be between"]
    ELSE IF gg.unit_types[Head(tasks)] = <<>>
    THEN commission_tasks(gg, b, importance, Tail(tasks))
    ELSE IF 10 * importance + 1 <= 0
    THEN [b EXCEPT !.raised = "math domain error"]
    ELSE commission_tasks(
             gg,
             [b EXCEPT !.commissioned =
                 Append(@, [task |-> Head(tasks),
                            importance_factor_num |-> importance - IMPORTANCE_LOW,
                            importance_factor_den |->
                                IMPORTANCE_HIGH - IMPORTANCE_LOW,
                            unit_types |-> gg.unit_types[Head(tasks)]])],
             importance, Tail(tasks))

\* populate_red_airbase: the base after the call.
populate_red_airbase(gg, cp) ==
    commission_tasks(gg, [strength |-> FULL_STRENGTH, commissioned |-> <<>>,
                          raised |-> ""],
                     gg.importance[cp], Tasks)

\* The importances of the control points, the same for all or mixed.
Importances ==
    {[c \in CPIds |-> v] : v \in {0 - 5, 5, 10, 12, 14, 20}}
        \cup {[c \in CPIds |-> IF c = 1 THEN 20 ELSE 12]}

\* What db.choose_units yields for a task.
UnitTypes ==
    {[task \in Range(Tasks) |-> <<"unit">>],
     [task \in Range(Tasks) |-> IF task = "PinpointStrike" THEN <<>>
                                ELSE <<"unit", "other">>]}

\* The generators that are followed: their options, what they read of the
\* control points, and the theater they were given.
GameGenerators(t) ==
    {[midgame |-> mg, inverted |-> inv,
      do_not_generate_carrier |-> no[1], do_not_generate_lha |-> no[2],
      captured_invert |-> ci, importance |-> imp, unit_types |-> ut,
      given |-> [controlpoints |-> t.controlpoints, captured |-> t.captured],
      bases |-> [c \in CPIds |-> [strength |-> FULL_STRENGTH \div 2,
                                  commissioned |-> <<>>, raised |-> ""]],
      step |-> "new"] :
        mg \in BOOLEAN, inv \in BOOLEAN,
        no \in {<<FALSE, FALSE>>, <<TRUE, FALSE>>, <<FALSE, TRUE>>},
        ci \in {[c \in CPIds |-> ~t.captured[c]], [c \in CPIds |-> FALSE]},
        imp \in Importances, ut \in UnitTypes}

InitPrepare ==
    /\ NotStarted
    /\ \E t \in Theaters :
          /\ ~t.connected
          /\ controlpoints = t.controlpoints
          /\ captured = t.captured
          /\ cptype = t.cptype
          /\ connected = t.connected
          /\ game_generator \in GameGenerators(t)
    /\ is_global = [c \in CPIds |-> FALSE]
    /\ do_not_generate_player_navy = FALSE
    /\ do_not_generate_enemy_navy = FALSE
    /\ pending = <<>>
    /\ faction = <<>>
    /\ ground_objects = [c \in CPIds |-> <<>>]
    /\ random = <<>>
    /\ calls = <<>>
    /\ search = <<>>
    /\ current_group_id = 0
    /\ name = [c \in CPIds |-> "base"]
    /\ visited = <<>>

\* GameGenerator.generate, line 72.
PrepareTheater ==
    /\ game_generator.step = "new"
    /\ \E t \in {prepare_theater(game_generator,
                                 [controlpoints |-> controlpoints,
                                  captured |-> captured, cptype |-> cptype])} :
          /\ controlpoints' = t.controlpoints
          /\ captured' = t.captured
          /\ pending' = red_airbases(t)
    /\ game_generator' = [game_generator EXCEPT !.step = "prepared"]
    /\ UNCHANGED turnvars
    /\ UNCHANGED <<cptype, connected, is_global, do_not_generate_player_navy,
                   do_not_generate_enemy_navy, faction, ground_objects, random,
                   calls, search, current_group_id, name, visited>>

\* GameGenerator.generate, line 73: populate_red_airbases populates the next
\* enemy control point; an error ends the generation.
PopulateRedAirbase ==
    /\ game_generator.step = "prepared"
    /\ pending # <<>>
    /\ \A c \in Range(visited) : game_generator.bases[c].raised = ""
    /\ game_generator' =
          [game_generator EXCEPT
              !.bases[Head(pending)] =
                  populate_red_airbase(game_generator, Head(pending))]
    /\ pending' = Tail(pending)
    /\ visited' = Append(visited, Head(pending))
    /\ UNCHANGED turnvars
    /\ UNCHANGED <<controlpoints, captured, cptype, connected, is_global,
                   do_not_generate_player_navy, do_not_generate_enemy_navy,
                   faction, ground_objects, random, calls, search,
                   current_group_id, name>>

NextPrepare == PrepareTheater \/ PopulateRedAirbase

SpecPrepare == InitPrepare /\ [][NextPrepare]_vars

(***************************************************************************)
(* Reading the log of the last handler call.                               *)
(***************************************************************************)
Idx(op) == {i \in 1..Len(log) : log[i].op = op}
IdxOf(op, side) == {i \in Idx(op) : log[i].side = side}
IdxAt(op, cp) == {i \in Idx(op) : log[i].cp = cp}
IsPassTurnLog == Len(log) > 0 /\ log[1].op = "pass_turn"
Points == Range(controlpoints)
Terminal == {"WIN", "LOSS"}
PlanningOps ==
    {"compute_conflicts_position", "compute_threat_zones", "ato_clear",
     "plan_missions", "plan_groundwar", "spend_budget"}
LandBase(c) == ~is_carrier(c) /\ ~is_lha(c)

(***************************************************************************)
(* C1                                                                      *)
(***************************************************************************)
\* C1, as stated: check_win_loss is LOSS iff no control point is captured, WIN
\* iff no control point is not captured, CONTINUE otherwise, for every set of
\* control points, the empty one included.
C1_AsStated ==
    /\ (check_win_loss = "LOSS") <=> (\A c \in Points : ~captured[c])
    /\ (check_win_loss = "WIN") <=> (\A c \in Points : captured[c])
    /\ (check_win_loss = "CONTINUE") <=>
          ((\E c \in Points : captured[c]) /\ (\E c \in Points : ~captured[c]))

\* C1, amended: check_win_loss is LOSS iff no control point is captured (so
\* also for the empty set), WIN iff there is at least one control point and
\* none is not captured, CONTINUE otherwise; the state initialize_turn
\* evaluates is that value.
C1_WinLoss ==
    /\ (check_win_loss = "LOSS") <=> (\A c \in Points : ~captured[c])
    /\ (check_win_loss = "WIN") <=>
          (Points # {} /\ \A c \in Points : captured[c])
    /\ (check_win_loss = "CONTINUE") <=>
          ((\E c \in Points : captured[c]) /\ (\E c \in Points : ~captured[c]))
    /\ \A i \in Idx("check_win_loss") : log[i].side = check_win_loss

\* An advance of a campaign without control points has evaluated LOSS.
C1_Witness ==
    /\ controlpoints = <<>>
    /\ \E i \in Idx("check_win_loss") : log[i].side = "LOSS"

(***************************************************************************)
(* C2                                                                      *)
(***************************************************************************)
\* C2: when initialize_turn evaluates WIN or LOSS it emits exactly one message,
\* the one of that state, and stops: nothing is recomputed, cleared or planned,
\* the allocator is not called, and both budgets are what income collection
\* left.
C2_TerminalStops ==
    \A i \in Idx("check_win_loss") :
        log[i].side \in Terminal =>
            /\ Idx("message") = {i + 1}
            /\ log[i + 1].side = log[i].side
            /\ \A j \in 1..Len(log) : log[j].op \notin PlanningOps
            /\ Len(log) = i + 2
            /\ log[i + 2].op = "autosave"
            /\ \A j \in IdxOf("income", "blue") : budget = log[j].y
            /\ \A j \in IdxOf("income", "red") : enemy_budget = log[j].y
            /\ IdxOf("income", "blue") # {} /\ IdxOf("income", "red") # {}

\* A turn evaluated WIN while the ATO still holds the packages planned in the
\* turn before.
C2_Witness ==
    /\ \E i \in Idx("check_win_loss") : log[i].side = "WIN"
    /\ blue_ato # {}

(***************************************************************************)
(* C3                                                                      *)
(***************************************************************************)
\* C3: once a turn has been evaluated WIN or LOSS, a further advance leaves
\* the turn counter, both budgets and every strength unchanged.
C3_TerminalRejectsAdvance ==
    [][(\E i \in Idx("check_win_loss") : log[i].side \in Terminal) =>
          /\ turn' = turn
          /\ budget' = budget
          /\ enemy_budget' = enemy_budget
          /\ strength' = strength]_vars

(***************************************************************************)
(* C4                                                                      *)
(***************************************************************************)
Phase(op) ==
    CASE op = "pass_turn" -> 0
      [] op = "turn" -> 1
      [] op = "process_turn" -> 2
      [] op = "income" -> 3
      [] op = "affect_strength" -> 4
      [] op = "generate_conditions" -> 5
      [] op = "autosave" -> 7
      [] OTHER -> 6

\* C4: in one advance the counter is incremented once, by 1; then the upkeep
\* hook of every control point runs once; then income is collected once per
\* faction; then the strength step; then the conditions are generated once, for
\* the incremented counter; then initialize_turn runs once.
C4_AdvanceOrder ==
    IsPassTurnLog =>
        /\ \A i, j \in 1..Len(log) : i < j => Phase(log[i].op) <= Phase(log[j].op)
        /\ Idx("pass_turn") = {1}
        /\ Idx("turn") = {2}
        /\ log[2].x = log[1].x + 1
        /\ turn = log[2].x
        /\ Cardinality(Idx("process_turn")) = Len(controlpoints)
        /\ \A c \in Points : Cardinality(IdxAt("process_turn", c)) = 1
        /\ \A i \in Idx("process_turn") : log[i].x = turn
        /\ Cardinality(Idx("income")) = 2
        /\ \A sd \in Sides : Cardinality(IdxOf("income", sd)) = 1
        /\ \A c \in Points :
              /\ Cardinality(IdxAt("affect_strength", c)) <= 1
              /\ (captured[c] /\ LandBase(c)) => IdxAt("affect_strength", c) # {}
        /\ Cardinality(Idx("generate_conditions")) = 1
        /\ \A i \in Idx("generate_conditions") : log[i].y = turn
        /\ Cardinality(Idx("initialize_turn")) = 1
        /\ \A i \in Idx("initialize_turn") : log[i].x = turn

\* An advance (not the first) of a theater of two control points in which
\* the strength step changed a base.
C4_Witness ==
    /\ IsPassTurnLog
    /\ advances >= 2
    /\ Len(controlpoints) = 2
    /\ Idx("affect_strength") # {}

(***************************************************************************)
(* C5                                                                      *)
(***************************************************************************)
C5_Step ==
    advances' = advances + 1 =>
        \A c \in Points :
            (captured[c] /\ LandBase(c)) =>
                strength'[c] =
                    IF log'[1].y = 0 /\ turn' > 1
                    THEN Min(FULL_STRENGTH, strength[c] + PLAYER_BASE_STRENGTH_RECOVERY)
                    ELSE Max(0, strength[c] - PLAYER_BASE_STRENGTH_RECOVERY)

\* C5: an advance with force_no_recovery false and counter (after the
\* increment) > 1 takes every player-owned land base from s to min(1, s + 0.2),
\* any other advance to max(0, s - 0.2); every strength stays in [0, 1].
C5_StrengthRecovery ==
    /\ [](\A c \in CPIds : strength[c] \in 0..FULL_STRENGTH)
    /\ [][C5_Step]_vars

\* A player-owned land base at 0.9 ended the advance at 1.0.
C5_Witness ==
    \E i \in Idx("affect_strength") :
        /\ log[i].x = PLAYER_BASE_STRENGTH_RECOVERY
        /\ log[i].y = 90
        /\ LandBase(log[i].cp)
        /\ strength[log[i].cp] = FULL_STRENGTH

(***************************************************************************)
(* C6                                                                      *)
(***************************************************************************)
\* C6: an advance leaves the strength of a player-owned carrier or LHA
\* unchanged, in both branches of the strength step.
C6_CarrierUntouched ==
    [][advances' = advances + 1 =>
          \A c \in Points :
              (captured[c] /\ ~LandBase(c)) => strength'[c] = strength[c]]_vars

(***************************************************************************)
(* C7                                                                      *)
(***************************************************************************)
\* C7: every advance raises each enemy-owned control point's strength by 0.05,
\* clamped to 1.0, whatever force_no_recovery and the counter; the strength
\* step of the advance never touches an enemy-owned control point.
C7_EnemyRecovery ==
    [][advances' = advances + 1 =>
          \A c \in Points :
              ~captured[c] =>
                  /\ strength'[c] =
                        Min(FULL_STRENGTH, strength[c] + ENEMY_BASE_STRENGTH_RECOVERY)
                  /\ \A i \in 1..Len(log') :
                        ~(log'[i].op = "affect_strength" /\ log'[i].cp = c)]_vars

\* An advance took an enemy-owned control point from 0.9 to 0.95.
C7_Witness ==
    /\ IsPassTurnLog
    /\ \E c \in Points : ~captured[c] /\ strength[c] = 95

(***************************************************************************)
(* C8                                                                      *)
(***************************************************************************)
\* C8: after n advances of a new campaign the counter is n and the time of day
\* of the current conditions is the (n mod 4)-th of the four values.
C8_TurnAndTimeOfDay ==
    /\ turn = advances
    /\ conditions.time_of_day = TimeOfDay[(advances % 4) + 1]

\* After four advances the cycle is back at its first value.
C8_Witness ==
    /\ advances = 4
    /\ conditions.time_of_day = TimeOfDay[1]

(***************************************************************************)
(* C9                                                                      *)
(***************************************************************************)
\* C9: the conditions of turn t are generated for the day campaign start date
\* + (t div 4).
C9_DayAdvances ==
    conditions.date = current_day(turn)

(***************************************************************************)
(* C10                                                                     *)
(***************************************************************************)
PlanPhase(op) ==
    CASE op = "compute_conflicts_position" -> 0
      [] op = "compute_threat_zones" -> 1
      [] op = "ato_clear" -> 2
      [] op = "plan_missions" -> 3
      [] op = "plan_groundwar" -> 4
      [] op = "spend_budget" -> 5
      [] op = "spend_budget_return" -> 5
      [] OTHER -> 6

\* C10: a turn evaluated CONTINUE recomputes the threat zones, then clears
\* both ATOs, then runs the mission planner of each faction (on an empty ATO),
\* then the ground planner of the control points that have a front line, and
\* only then procurement.
C10_PlanningOrder ==
    \A i \in Idx("check_win_loss") :
        log[i].side = "CONTINUE" =>
            /\ \A j, k \in (i + 1)..Len(log) :
                  j < k => PlanPhase(log[j].op) <= PlanPhase(log[k].op)
            /\ Cardinality(Idx("compute_threat_zones")) = 1
            /\ \A sd \in Sides :
                  /\ Cardinality(IdxOf("ato_clear", sd)) = 1
                  /\ Cardinality(IdxOf("plan_missions", sd)) = 1
                  /\ Cardinality(IdxOf("spend_budget", sd)) = 1
            /\ \A j \in Idx("plan_missions") : log[j].x = 0
            /\ {log[j].cp : j \in Idx("plan_groundwar")} =
                  {c \in Points : has_frontline(c)}
            /\ Idx("message") = {}

\* A CONTINUE turn that cleared the packages of the turn before and ran a
\* ground planner.
C10_Witness ==
    /\ \E i \in Idx("check_win_loss") : log[i].side = "CONTINUE"
    /\ \E j \in Idx("ato_clear") : log[j].x > 0
    /\ Idx("plan_groundwar") # {}

(***************************************************************************)
(* C11                                                                     *)
(***************************************************************************)
Continue == \E i \in Idx("check_win_loss") : log[i].side = "CONTINUE"

C12_FrontLineShare ==
    /\ \A i \in Idx("spend_budget") :
          log[i].x = IF turn = 0 THEN FIRST_TURN_GROUND_PORTION ELSE GROUND_PORTION
    /\ \A i, j \in Idx("spend_budget") : log[i].x = log[j].x
    /\ IsPassTurnLog => \A i \in Idx("spend_budget") : log[i].x = GROUND_PORTION
    /\ advances = 0 =>
          \A i \in Idx("spend_budget") : log[i].x = FIRST_TURN_GROUND_PORTION

\* The first advance called both allocators with 0.5.
C12_Witness ==
    /\ IsPassTurnLog
    /\ turn = 1
    /\ \A sd \in Sides :
          \E i \in IdxOf("spend_budget", sd) : log[i].x = GROUND_PORTION

(***************************************************************************)
(* C13                                                                     *)
(***************************************************************************)
\* What the advance that led to the next state did with a faction's budget.
IncomeOf(sd) == {log'[i].x : i \in {i \in 1..Len(log') :
                    log'[i].op = "income" /\ log'[i].side = sd}}
HandedTo(sd) == {log'[i].y : i \in {i \in 1..Len(log') :
                    log'[i].op = "spend_budget" /\ log'[i].side = sd}}
ReturnedTo(sd) == {log'[i].x : i \in {i \in 1..Len(log') :
                    log'[i].op = "spend_budget_return" /\ log'[i].side = sd}}
ContinueNext ==
    \E i \in 1..Len(log') :
        log'[i].op = "check_win_loss" /\ log'[i].side = "CONTINUE"

C13_Step ==
    (advances' = advances + 1 /\ ContinueNext) =>
        /\ \E inc \in IncomeOf("blue") :
              /\ HandedTo("blue") = {budget + inc}
              /\ ReturnedTo("blue") = {budget'}
        /\ \E inc \in IncomeOf("red") :
              /\ HandedTo("red") = {enemy_budget + inc}
              /\ ReturnedTo("red") = {enemy_budget'}

\* C13: in an advance that ends in CONTINUE each allocator is handed its
\* faction's budget of before the advance plus that faction's income of the
\* turn, and the faction's budget after the advance is what its allocator
\* returned; nothing else in the advance changes a budget, and neither the
\* income nor the spending of one faction reach the other faction's budget.
C13_BudgetFlow == [][C13_Step]_vars

\* An advance in which the player had an income and spent it, and the enemy
\* had neither.
C13_Witness ==
    /\ IsPassTurnLog
    /\ Continue
    /\ \E i \in IdxOf("income", "blue"), j \in IdxOf("spend_budget", "blue") :
          log[i].x = 1 /\ budget < log[j].y
    /\ \E i \in IdxOf("income", "red"), j \in IdxOf("spend_budget", "red") :
          log[i].x = 0 /\ enemy_budget = log[j].y

(***************************************************************************)
(* C14                                                                     *)
(***************************************************************************)
\* C14: with incomes that are not negative and allocators that return between
\* 0 and what they were given, both budgets are never negative, no allocator
\* is handed a negative budget, and no faction is left with more than its
\* allocator was handed.
C14_BudgetsNotNegative ==
    /\ budget >= 0
    /\ enemy_budget >= 0
    /\ \A i \in Idx("spend_budget") : log[i].y >= 0
    /\ \A i \in Idx("spend_budget_return") :
          /\ log[i].x >= 0
          /\ \E j \in IdxOf("spend_budget", log[i].side) :
                j < i /\ log[i].x <= log[j].y

\* An advance in which the player's allocator was handed the income of the
\* turn and spent all of it.
C14_Witness ==
    /\ IsPassTurnLog
    /\ budget = 0
    /\ \E i \in IdxOf("spend_budget", "blue") : log[i].y >= 1

(***************************************************************************)
(* C15                                                                     *)
(***************************************************************************)
\* C15: an advance invokes autosave at most once, and only as its last step,
\* after initialize_turn (in a CONTINUE turn: after both allocators returned);
\* when a collaborator fails during the advance nothing runs after the failure
\* and autosave is not invoked.
C15_AutosaveLast ==
    IsPassTurnLog =>
        /\ Cardinality(Idx("autosave")) <= 1
        /\ \A i \in Idx("autosave") :
              /\ i = Len(log)
              /\ Idx("raise") = {}
              /\ Idx("initialize_turn") # {}
              /\ Continue => \A sd \in Sides : IdxOf("spend_budget_return", sd) # {}
        /\ \A i \in Idx("raise") : i = Len(log) /\ Idx("autosave") = {}
        /\ Idx("raise") = {} => Idx("autosave") # {}

\* An advance in which the enemy's allocator failed, after the planners and
\* the player's allocator had run: no autosave.
C15_Witness ==
    /\ IsPassTurnLog
    /\ \E i \in Idx("raise") : log[i].side = "spend_budget"
    /\ IdxOf("spend_budget_return", "blue") # {}
    /\ Idx("autosave") = {}

(***************************************************************************)
(* C16                                                                     *)
(***************************************************************************)
\* The targets of the packages of both ATOs that are not BARCAP packages.
Targets(blue, red) == {target_position(p) : p \in {q \in blue \cup red : q.task # "BARCAP"}}
PackagePoints(points) == {pt \in Range(points) : pt.kind = "tgo"}

\* C16, as stated: every advance rebuilds the culling points, whether it ends
\* in CONTINUE, WIN or LOSS.
C16_AsStated ==
    IsPassTurnLog => Cardinality(Idx("compute_conflicts_position")) = 1

C16_Step ==
    advances' = advances + 1 =>
        IF ContinueNext
        THEN /\ Cardinality({i \in 1..Len(log') :
                     log'[i].op = "compute_conflicts_position"}) = 1
             /\ \A pt \in Range(culling_points') :
                   \/ pt.kind = "front" /\ <<pt.a, pt.b>> \in conflicts
                   \/ pt.kind = "cp" /\ pt.a \in Points
                   \/ pt.kind = "mid" /\ captured[pt.a] /\ ~captured[pt.b]
                   \/ pt \in Targets(blue_ato, red_ato)
        ELSE /\ culling_points' = culling_points
             /\ \A i \in 1..Len(log') : log'[i].op # "compute_conflicts_position"

\* C16: an advance that ends in CONTINUE rebuilds the culling points from
\* scratch: each point of the new list is a point of a front line, the
\* position of a control point, the middle between two opposing control
\* points, or the target of a package that was in an ATO when the advance
\* began.  An advance that ends in WIN or LOSS leaves the list as it was.
C16_RebuiltInContinue == [][C16_Step]_vars

\* A CONTINUE advance, the third or a later one, rebuilt the list while the
\* ATOs held no package other than BARCAP: the list holds no package target.
C16_Witness ==
    /\ IsPassTurnLog
    /\ Continue
    /\ advances >= 3
    /\ PackagePoints(culling_points) = {}
    /\ Len(culling_points) >= 3

(***************************************************************************)
(* C17                                                                     *)
(***************************************************************************)
\* C17: after a turn evaluated CONTINUE the culling points hold the target of
\* every package, other than BARCAP, planned for the turn, and no target of a
\* package of the turn before only.
C17_CurrentTurn ==
    (IsPassTurnLog /\ Continue) =>
        PackagePoints(culling_points) = Targets(blue_ato, red_ato)

(***************************************************************************)
(* C18                                                                     *)
(***************************************************************************)
\* How often a point occurs in a list of points.
Occurrences(points, pt) == Cardinality({i \in 1..Len(points) : points[i] = pt})

C18_Step ==
    (\E i \in 1..Len(log') : log'[i].op = "compute_conflicts_position") =>
        \A c \in CPIds :
            Occurrences(culling_points', Point("tgo", c, 0)) =
                Cardinality({p \in blue_ato : p.task # "BARCAP" /\ p.target = c})
                + Cardinality({p \in red_ato : p.task # "BARCAP" /\ p.target = c})

\* C18: when compute_conflicts_position runs, every package of either ATO
\* that is not a BARCAP package adds its target to the culling points, once,
\* and a BARCAP package adds nothing.
C18_BarcapExcluded == [][C18_Step]_vars

\* The game was loaded with a BARCAP package and a strike package on the same
\* target in the ATOs: the target is in the culling points once.
C18_Witness ==
    /\ Len(log) > 0 /\ log[1].op = "setstate"
    /\ \E p \in blue_ato \cup red_ato, q \in blue_ato \cup red_ato :
          /\ p.task = "BARCAP" /\ q.task # "BARCAP" /\ p.target = q.target
          /\ Occurrences(culling_points, target_position(q)) = 1

(***************************************************************************)
(* C19                                                                     *)
(***************************************************************************)
C19_Step ==
    (/\ advances' = advances + 1
     /\ Len(controlpoints) = 2
     /\ \E a, b \in Points : captured[a] /\ ~captured[b]
     /\ \A c \in Points : LandBase(c)) =>
        /\ ContinueNext
        /\ Len(culling_points') >= 3
        /\ \A c \in Points : position(c) \in Range(culling_points')
        /\ \E a, b \in Points :
              \/ frontline_position(a, b) \in Range(culling_points')
              \/ midpoint(a, b) \in Range(culling_points')
        /\ \E inc \in IncomeOf("blue") : HandedTo("blue") = {budget + inc}
        /\ \E inc \in IncomeOf("red") : HandedTo("red") = {enemy_budget + inc}

\* C19: in a theater of two land bases, one of the player and one of the
\* enemy, an advance ends in CONTINUE, leaves at least three culling points
\* (the positions of the two bases and a point between them), with or without
\* a front line between the two, and hands each allocator the faction's budget
\* plus the faction's own income.
C19_TwoBases == [][C19_Step]_vars

\* Two land bases with no front line between them, after an advance in which
\* only the player had an income: the culling points are the two positions
\* and the middle.
C19_Witness ==
    /\ IsPassTurnLog
    /\ Len(controlpoints) = 2 /\ ~connected
    /\ captured[1] /\ ~captured[2] /\ \A c \in Points : LandBase(c)
    /\ culling_points = <<position(1), position(2), midpoint(1, 2)>>
    /\ \E i \in IdxOf("income", "blue"), j \in IdxOf("income", "red") :
          log[i].x = 1 /\ log[j].x = 0

(***************************************************************************)
(* C20                                                                     *)
(***************************************************************************)
Loaded == Len(log) > 0 /\ log[1].op = "setstate"

\* C20, as stated: the persisted state holds neither a threat zone, nor a
\* nav-mesh, nor the culling points.
C20_AsStated ==
    DOMAIN getstate(Game).state \cap (Deleted \cup {"culling_points"}) = {}

\* C20, the part that holds: the persisted state holds no threat zone and no
\* nav-mesh (it does hold the culling points); after a load both threat zones,
\* both nav-meshes and the culling points are those computed from the loaded
\* game; and producing the persisted state leaves the four attributes on the
\* live game.
C20_Persistence ==
    /\ DOMAIN getstate(Game).state \cap Deleted = {}
    /\ "culling_points" \in DOMAIN getstate(Game).state
    /\ Loaded =>
          /\ blue_threat_zone = {for_faction(TRUE)}
          /\ red_threat_zone = {for_faction(FALSE)}
          /\ blue_navmesh = {from_threat_zones(for_faction(FALSE))}
          /\ red_navmesh = {from_threat_zones(for_faction(TRUE))}
          /\ Cardinality(Idx("compute_conflicts_position")) = 1
          /\ PackagePoints(culling_points) = Targets(blue_ato, red_ato)
    /\ blue_threat_zone # {} /\ red_threat_zone # {}
    /\ blue_navmesh # {} /\ red_navmesh # {}

\* A game loaded after its first advance, which planned a strike: the
\* culling points computed by the load hold the strike's target, which those
\* computed during the advance did not.
C20_Witness ==
    /\ Loaded
    /\ advances = 1
    /\ PackagePoints(culling_points) # {}

(***************************************************************************)
(* Claims about find_location, under SpecPlacement.                        *)
(***************************************************************************)
Returned == search.called /\ search.point # None

\* The terrain the search asked for, at a point.
Wanted(p) ==
    IF search.on_ground THEN is_on_land(search.theater, p)
    ELSE is_in_sea(search.theater, p)

Headings == {0, 45, 90, 135, 180, 225, 270, 315}

ClearFootprint(p) ==
    \A h \in Headings : Wanted(point_from_heading(p, h, 2500))

FarFromExisting(p) ==
    \A i \in DOMAIN search.others : distance(search.others[i], p) >= 10000

OtherControlPoints ==
    {i \in DOMAIN search.theater.controlpoints :
        search.theater.controlpoints[i].position # search.near}

FarFromControlPoints(p) ==
    \A i \in OtherControlPoints :
        LET cp == search.theater.controlpoints[i]
        IN  /\ distance(cp.position, p) >= 30000
            /\ \A j \in DOMAIN cp.ground_objects :
                   distance(cp.ground_objects[j], p) >= 10000

\* C21: find_location never returns a point closer than 10000 to an element of
\* the list of existing installations it was given, whether it searches land
\* or sea, for a base defense or not.
C21_ExistingSeparation == Returned => FarFromExisting(search.point[1])

\* A sea search for a base defense that rejected a candidate 9999 away from an
\* existing installation and returned the next one, 10000 away from it.
C21_Witness ==
    /\ Returned /\ ~search.on_ground /\ search.is_base_defense
    /\ \E i \in DOMAIN search.others :
          distance(search.others[i], search.point[1]) = 10000
    /\ \E k \in DOMAIN search.trace :
          /\ search.trace[k].point = None
          /\ ClearFootprint(search.trace[k].p) /\ Wanted(search.trace[k].p)
          /\ \E i \in DOMAIN search.others :
                distance(search.others[i], search.trace[k].p) = 9999

\* C22: a search that is not for a base defense never returns a point closer
\* than 30000 to another control point, nor closer than 10000 to one of its
\* installations; a search for a base defense applies neither check: it
\* returns the first candidate of the right terrain, with a clear footprint,
\* that is far enough from the existing installations.
C22_ControlPointSeparation ==
    search.called =>
        /\ (~search.is_base_defense /\ search.point # None)
              => FarFromControlPoints(search.point[1])
        /\ search.is_base_defense =>
              \A k \in DOMAIN search.trace :
                  (/\ Wanted(search.trace[k].p)
                   /\ ClearFootprint(search.trace[k].p)
                   /\ FarFromExisting(search.trace[k].p))
                  => search.trace[k].point = Some(search.trace[k].p)

\* The first control point of three has an installation 9999 away from the
\* first candidate, which is far from all three control points: it was
\* rejected, and the candidate returned is 30000 away from a control point.
C22_Witness ==
    /\ Returned /\ ~search.is_base_defense
    /\ Len(search.theater.controlpoints) = 3
    /\ \E i \in OtherControlPoints :
          distance(search.theater.controlpoints[i].position,
                   search.point[1]) = 30000
    /\ \E k \in DOMAIN search.trace :
          /\ search.trace[k].point = None /\ search.trace[k].separation
          /\ FarFromExisting(search.trace[k].p)
          /\ \A i \in OtherControlPoints :
                distance(search.theater.controlpoints[i].position,
                         search.trace[k].p) >= 30000
          /\ \E j \in DOMAIN search.theater.controlpoints[1].ground_objects :
                distance(search.theater.controlpoints[1].ground_objects[j],
                         search.trace[k].p) = 9999

\* A base defense was given a place closer than 30000 to another control point.
C22_BaseDefenseWitness ==
    /\ Returned /\ search.is_base_defense
    /\ ~FarFromControlPoints(search.point[1])

C23_NoneWitness ==
    /\ search.called /\ search.point = None /\ Len(search.trace) = 300
    /\ Len(search.stream) = 2

\* C24: a point find_location returns is of the terrain asked for, land or
\* sea, and so are the 8 points at 2500 from it on the headings 0, 45, ...,
\* 315; a candidate of the wrong terrain is rejected with no point probed and
\* no separation check made.
C24_Terrain ==
    search.called =>
        /\ search.point # None =>
              Wanted(search.point[1]) /\ ClearFootprint(search.point[1])
        /\ \A k \in DOMAIN search.trace :
              ~Wanted(search.trace[k].p) =>
                  /\ search.trace[k].point = None
                  /\ search.trace[k].probes = 0
                  /\ ~search.trace[k].separation

\* A land search on a coast: the first candidate is on land but the point
\* 2500 west of it is on the shore, and it was rejected at that probe; the
\* candidate returned has all 8 probes on land.
C24_Witness ==
    /\ Returned /\ search.on_ground /\ Len(search.trace) = 2
    /\ Wanted(search.trace[1].p) /\ ~ClearFootprint(search.trace[1].p)
    /\ search.trace[1].probes = 7 /\ ~search.trace[1].separation
    /\ search.trace[2].probes = 8

\* A sea search that rejected a candidate on land without probing.
C24_SeaWitness ==
    /\ Returned /\ ~search.on_ground /\ Len(search.trace) = 2
    /\ is_on_land(search.theater, search.trace[1].p)
    /\ search.trace[1].probes = 0

(***************************************************************************)
(* Claims about the ground object generator, under SpecGenerate.  The list *)
(* of calls is that of the control point visited last.                     *)
(***************************************************************************)
Visited == calls # <<>>

VisitedCP == calls[1].cp

LocationSearches == {i \in DOMAIN calls : calls[i].fn = "find_location"}

SearchesBy(bys) == {i \in LocationSearches : calls[i].by \in bys}

\* The searches for the AA sites and the buildings of the control point.
GroundPointSearches == SearchesBy({"generate_aa_site", "generate_ground_point"})

BaseDefenseSearches == SearchesBy({"generate_sam"})

First(S) == CHOOSE i \in S : \A j \in S : i <= j

\* The faction that populates the control point visited.
VisitedFaction == faction[IF captured[VisitedCP] THEN "blue" ELSE "red"]

\* C25, as stated: every find_location call of the generator passes the whole
\* current installation list of the control point as the existing ones.
C25_FullList ==
    \A i \in LocationSearches : calls[i].others = calls[i].existing

\* What does hold: the searches for AA sites and buildings pass the list.
C25_GroundPointsFullList ==
    \A i \in GroundPointSearches : calls[i].others = calls[i].existing

\* A ship, a missile site or a base defense searched with an empty list while
\* the control point had installations.
C25_StaleList ==
    \E i \in SearchesBy({"generate_ship", "generate_missile_site",
                          "generate_sam"}) :
        calls[i].others = <<>> /\ calls[i].existing # <<>>

\* C26, as stated: for a global control point nothing is placed and nothing
\* is searched.
C26_GlobalSkipped ==
    (Visited /\ is_global[VisitedCP]) =>
        ground_objects[VisitedCP] = <<>> /\ LocationSearches = {}

\* What does hold for a global control point: no AA site and no building.
C26_NoGroundPoints ==
    (Visited /\ is_global[VisitedCP]) =>
        /\ GroundPointSearches = {}
        /\ \A i \in DOMAIN ground_objects[VisitedCP] :
              ground_objects[VisitedCP][i].kind \notin {"aa", "building"}

\* A global airbase that was given base defenses.
C26_GlobalPopulated ==
    /\ Visited /\ is_global[VisitedCP] /\ cptype[VisitedCP] = "airbase"
    /\ \E i \in DOMAIN ground_objects[VisitedCP] :
          ground_objects[VisitedCP][i].kind = "base_defense"

\* C27, as stated: for a control point that is not global the first thing
\* searched is the place of an AA site, on land, between 10000 and 40000, and
\* this whatever the building categories of the faction.
C27_InitialSite ==
    (Visited /\ ~is_global[VisitedCP]) =>
        /\ GroundPointSearches # {}
        /\ LET c == calls[First(GroundPointSearches)]
           IN  /\ c.by = "generate_aa_site" /\ c.on_ground
               /\ c.min_range = 10000 /\ c.max_range = 40000

\* What does hold: the same, for a faction that has building categories.
C27_InitialSiteWithCategories ==
    (Visited /\ ~is_global[VisitedCP] /\ VisitedFaction.building_set # <<>>) =>
        /\ GroundPointSearches # {} /\ First(GroundPointSearches) = 2
        /\ LET c == calls[First(GroundPointSearches)]
           IN  /\ c.by = "generate_aa_site" /\ c.on_ground
               /\ c.min_range = 10000 /\ c.max_range = 40000

\* A control point that is not global, of a faction with no building
\* category, for which no AA site was searched.
C27_NoSite ==
    /\ Visited /\ ~is_global[VisitedCP]
    /\ VisitedFaction.building_set = <<>>
    /\ GroundPointSearches = {}

C28_TwoWitness ==
    /\ Visited
    /\ Cardinality(GroundPointSearches) = 3
    /\ Cardinality(SearchesBy({"generate_ground_point"})) = 2

\* C29, as stated: every building is searched on land.
C29_LandOnly ==
    \A i \in SearchesBy({"generate_ground_point"}) : calls[i].on_ground

\* C29, amended: a building of a category other than "oil" is searched on
\* land, and a building of the category "oil" is searched at sea.
C29_LandUnlessOil ==
    \A i \in SearchesBy({"generate_ground_point"}) :
        calls[i].on_ground <=> (calls[i].category # "oil")

\* An oil building was searched at sea, found a place, and was appended.
C29_Witness ==
    /\ Visited
    /\ \E i \in SearchesBy({"generate_ground_point"}) :
          /\ calls[i].category = "oil" /\ ~calls[i].on_ground
          /\ calls[i].result
    /\ \E j \in DOMAIN ground_objects[VisitedCP] :
          /\ ground_objects[VisitedCP][j].kind = "building"
          /\ ground_objects[VisitedCP][j].category = "oil"

\* The groups asked for on behalf of the base defense of index i.
DefenseGroups(i) ==
    {calls[j].fn : j \in {j \in DOMAIN calls :
                            /\ calls[j].by = "generate_sam"
                            /\ calls[j].fn # "find_location"
                            /\ calls[j].index = i}}

\* What does hold of the base defenses: an airbase has 3 to 6 of them
\* attempted, of indices 0..n-1 in order, each searched on land between 800
\* and 3200 as a base defense; the one of index 0 is armor.
C30_Placements ==
    (Visited /\ cptype[VisitedCP] = "airbase") =>
        LET n == Cardinality(BaseDefenseSearches)
        IN  /\ n >= 3 /\ n <= 6
            /\ {calls[i].index : i \in BaseDefenseSearches} = 0..(n - 1)
            /\ \A i, j \in BaseDefenseSearches :
                  i < j => calls[i].index < calls[j].index
            /\ \A i \in BaseDefenseSearches :
                  /\ calls[i].on_ground /\ calls[i].is_base_defense
                  /\ calls[i].min_range = 800 /\ calls[i].max_range = 3200
            /\ DefenseGroups(0) \subseteq {"generate_armor_group"}

\* C30, as stated: besides, the group of index 1 is SAM or armor, and the
\* group of an index from 2 on is SHORAD or armor.
C30_GroupByIndex ==
    (Visited /\ cptype[VisitedCP] = "airbase") =>
        /\ C30_Placements
        /\ DefenseGroups(1) \subseteq
              {"generate_anti_air_group", "generate_armor_group"}
        /\ \A i \in 2..5 :
              DefenseGroups(i) \subseteq
                  {"generate_shorad_group", "generate_armor_group"}

\* The base defense of index 1 was given a SHORAD group.
C30_ShoradAtOne ==
    /\ Visited /\ cptype[VisitedCP] = "airbase"
    /\ "generate_shorad_group" \in DefenseGroups(1)

(***************************************************************************)
(* Reading the generation as a whole.                                      *)
(***************************************************************************)
\* The copy of the control-point list GroundObjectGenerator.generate iterates.
Original == visited \o pending

\* The names the faction holding a carrier or LHA control point has for it.
ship_names(c) ==
    IF cptype[c] = "carrier" THEN faction_of(World, c).carrier_names
    ELSE faction_of(World, c).helicopter_carrier_names

IsShipPoint(c) == cptype[c] \in {"carrier", "lha"}

Nameless(c) == IsShipPoint(c) /\ ship_names(c) = <<>>

\* The carrier and LHA installations of a control point.
ShipObjects(c) ==
    {i \in DOMAIN ground_objects[c] :
        ground_objects[c][i].kind \in {"carrier", "lha"}}

\* The installation list of the visited control point, and the group id
\* counter, right after the i-th call of the visit.
ObjectsAfter(i) ==
    IF i < Len(calls) THEN calls[i + 1].existing ELSE ground_objects[VisitedCP]

GroupIdAfter(i) ==
    IF i < Len(calls) THEN calls[i + 1].current_group_id ELSE current_group_id

(***************************************************************************)
(* C31                                                                     *)
(***************************************************************************)
\* C31: every control point of the list is visited once, in the order of the
\* list; a visited carrier (LHA) control point whose faction has no carrier
\* (helicopter carrier) names is absent from the theater's list, and the
\* other control points keep their relative order; any other visited carrier
\* or LHA control point has exactly one carrier or LHA installation of its
\* class and bears one of the faction's names.
C31_CarrierPolicy ==
    /\ Original = [i \in 1..Len(Original) |-> i]
    /\ controlpoints =
          SelectSeq(Original, LAMBDA c : ~(c \in Range(visited) /\ Nameless(c)))
    /\ \A c \in Range(visited) :
          /\ Nameless(c) => ShipObjects(c) = {} /\ name[c] = "base"
          /\ IsShipPoint(c) /\ ~Nameless(c) =>
                /\ Cardinality(ShipObjects(c)) = 1
                /\ \A i \in ShipObjects(c) :
                      ground_objects[c][i].kind = cptype[c]
                /\ name[c] \in Range(ship_names(c))
          /\ ~IsShipPoint(c) => ShipObjects(c) = {} /\ name[c] = "base"

\* A carrier control point was dropped and the control point after it was
\* visited and kept.
C31_Witness ==
    /\ pending = <<>>
    /\ Len(visited) = 2
    /\ Nameless(1)
    /\ controlpoints = <<2>>
    /\ ground_objects[2] # <<>>

\* A carrier control point was given the second of its faction's names.
C31_RenamedWitness ==
    /\ 1 \in Range(visited)
    /\ cptype[1] = "carrier"
    /\ name[1] = "CVN-72"
    /\ Cardinality(ShipObjects(1)) = 1

(***************************************************************************)
(* C32                                                                     *)
(***************************************************************************)
\* The calls of the carrier or LHA group generator, and those of them that
\* yielded no group.
ShipGroupCalls ==
    {i \in DOMAIN calls :
        calls[i].fn \in {"generate_carrier_group", "generate_lha_group"}}

FailedShipGroups == {i \in ShipGroupCalls : ~calls[i].result}

\* C32, as stated: a carrier or LHA control point whose group generator
\* returned no group is not in the theater's control-point list afterwards.
C32_GrouplessDropped ==
    Visited /\ FailedShipGroups # {} => VisitedCP \notin Range(controlpoints)

(***************************************************************************)
(* C33                                                                     *)
(***************************************************************************)
\* The calls of the group generators.
GroupCalls ==
    {i \in DOMAIN calls : calls[i].fn \notin {"generate", "find_location"}}

\* C33, as stated: every group generator call (it is made once a location
\* was found, or for the carrier or LHA) is followed by the appending of the
\* installation, whether it returned a group or not; and every search for a
\* building that found a location is followed by the appending of buildings.
C33_AlwaysAppended ==
    /\ \A i \in GroupCalls :
          Len(ObjectsAfter(i)) = Len(calls[i].existing) + 1
    /\ \A i \in SearchesBy({"generate_ground_point"}) :
          calls[i].result => Len(ObjectsAfter(i)) > Len(calls[i].existing)

(***************************************************************************)
(* C34                                                                     *)
(***************************************************************************)
\* The searches of a list of calls, without their outcomes.
RECURSIVE Attempts(_)
Attempts(cs) ==
    IF cs = <<>> THEN <<>>
    ELSE IF Head(cs).fn = "find_location"
         THEN <<<<Head(cs).by, Head(cs).cp, Head(cs).index,
                  Head(cs).category>>>> \o Attempts(Tail(cs))
         ELSE Attempts(Tail(cs))

\* The visit of the next control point in a world where every search finds a
\* location.
AllFound ==
    generate_pass([World EXCEPT !.random.places = <<TRUE>>, !.random.f = 0],
                  Head(pending))

\* C34: a search that found no location leaves the installation list as it
\* was and takes no group id (a visit takes one group id per search that
\* found a location, and one for the carrier or LHA), and the visit goes on:
\* the searches of a visit are those of the same visit in a world where every
\* search finds a location, and the control points after it are still to be
\* visited.
C34_Step ==
    pending # <<>> =>
        /\ Attempts(calls') = Attempts(AllFound.calls)
        /\ pending' = Tail(pending)
        /\ \A i \in LocationSearches' :
              ~calls'[i].result => ObjectsAfter(i)' = calls'[i].existing
        /\ current_group_id' =
              current_group_id
              + Cardinality({i \in LocationSearches' : calls'[i].result})
              + Cardinality(ShipGroupCalls')

C34_SkipsOnlyThat == [][C34_Step]_vars

\* In the visit of the second control point a search found no location, a
\* later search of the visit found one, and its installation was appended.
C34_Witness ==
    /\ Len(visited) = 2
    /\ \E i, j \in LocationSearches :
          /\ i < j
          /\ ~calls[i].result
          /\ calls[j].result
          /\ GroupIdAfter(j) = calls[j].current_group_id + 1
          /\ Len(ground_objects[VisitedCP]) > Len(calls[j].existing)

(***************************************************************************)
(* C36                                                                     *)
(***************************************************************************)
\* The installations of the theater, each named by its control point and its
\* place in the control point's list.
Installations ==
    UNION {{<<c, i>> : i \in DOMAIN ground_objects[c]} : c \in CPIds}

Installation(p) == ground_objects[p[1]][p[2]]

IdPair(p) == <<Installation(p).group_id, Installation(p).object_id>>

\* C36: every installation is in the list of the control point it refers to;
\* no two installations have the same (group id, object id); the group ids
\* of the installations a visit adds are beyond the counter before the visit
\* and not beyond the counter after it, and along a list they never decrease.
C36_Inv ==
    /\ \A p \in Installations : Installation(p).control_point = p[1]
    /\ \A p, q \in Installations : p # q => IdPair(p) # IdPair(q)
    /\ \A p \in Installations : Installation(p).group_id \in 1..current_group_id
    /\ \A p, q \in Installations :
          p[1] = q[1] /\ p[2] < q[2] =>
              Installation(p).group_id <= Installation(q).group_id

C36_Step ==
    /\ current_group_id' >= current_group_id
    /\ \A p \in Installations' \ Installations :
          Installation(p)'.group_id > current_group_id
    /\ \A p \in Installations : p \in Installations' /\ Installation(p)' = Installation(p)

C36_Identity == []C36_Inv /\ [][C36_Step]_vars

\* Both control points have installations, among them the two buildings of
\* one template, which share a group id.
C36_Witness ==
    /\ pending = <<>>
    /\ \A c \in CPIds : ground_objects[c] # <<>>
    /\ \E p, q \in Installations :
          /\ p # q
          /\ Installation(p).group_id = Installation(q).group_id
          /\ Installation(q).object_id = 2

OutOfBounds(c) ==
    \/ game_generator.importance[c] < IMPORTANCE_LOW
    \/ game_generator.importance[c] > IMPORTANCE_HIGH

\* C35, as stated: populating a control point whose importance is out of
\* bounds raises the error and commissions nothing, and populating one whose
\* importance is within the bounds raises nothing.
C35_AbortsOutOfBounds ==
    game_generator # <<>> =>
        \A c \in Range(visited) :
            /\ OutOfBounds(c) =>
                  /\ game_generator.bases[c].raised # ""
                  /\ game_generator.bases[c].commissioned = <<>>
            /\ ~OutOfBounds(c) => game_generator.bases[c].raised = ""

(***************************************************************************)
(* C39                                                                     *)
(***************************************************************************)
\* The first half of the control points the generator was given.
FirstHalf ==
    Range(SubSeq(game_generator.given.controlpoints, 1,
                 Len(game_generator.given.controlpoints) \div 2))

\* The ownership of a control point without the midgame option.
OwnedAnyway(c) ==
    IF game_generator.inverted THEN game_generator.captured_invert[c]
    ELSE game_generator.given.captured[c]

\* C39, as stated: with the midgame option, the control points prepare_theater
\* leaves captured are those of the first half of the list and those that are
\* the player's without the option, whether the inverted setting is on or not.
C39_HalfCaptured ==
    game_generator # <<>> /\ game_generator.step = "prepared"
    /\ game_generator.midgame =>
        \A c \in Range(controlpoints) :
            captured[c] => c \in FirstHalf \/ OwnedAnyway(c)

(***************************************************************************)
(* C38                                                                     *)
(***************************************************************************)
\* The pairs of opposing control points the culling points hold the middle of.
MiddlePairs ==
    {<<culling_points[i].a, culling_points[i].b>> :
        i \in {i \in DOMAIN culling_points : culling_points[i].kind = "mid"}}

\* C38, as stated: the middle among the culling points is the middle of a
\* player-owned and an enemy-owned control point no other such pair is
\* nearer to each other than, and the positions of the two are among the
\* culling points.
C38_NearestPair ==
    \A pair \in MiddlePairs :
        /\ position(pair[1]) \in Range(culling_points)
        /\ position(pair[2]) \in Range(culling_points)
        /\ \A p \in Range(player_points), e \in Range(enemy_points) :
              distance_to_point(pair[1], pair[2]) <= distance_to_point(p, e)

(***************************************************************************)
(* C40                                                                     *)
(***************************************************************************)
\* C40: an advance leaves every control point's captured flag and the list of
\* control points as they were; the turn state it evaluates is the turn state
\* before it and the turn state after it, so a campaign in WIN or LOSS is in
\* the same state after the advance.
C40_Step ==
    advances' # advances =>
        /\ captured' = captured
        /\ controlpoints' = controlpoints
        /\ check_win_loss' = check_win_loss
        /\ \A i \in 1..Len(log') :
              log'[i].op = "check_win_loss" => log'[i].side = check_win_loss
        /\ check_win_loss \in Terminal => check_win_loss' = check_win_loss

C40_ContinueWitness ==
    /\ advances >= 1
    /\ IsPassTurnLog
    /\ check_win_loss = "CONTINUE"
    /\ \E i \in Idx("check_win_loss") : log[i].side = "CONTINUE"

====
